---------------------------- MODULE Spec2Model ----------------------------
(***************************************************************************)
(* sysprobe-llm: the probe execution pipeline.                             *)
(*                                                                         *)
(*   - Runner.CanRun / Runner.Run / truncateOutput  (internal/probe)       *)
(*   - Platform.MatchesTags                         (internal/platform)    *)
(*   - runWithoutUI / runWithUI worker pools        (cmd main)             *)
(*                                                                         *)
(* Go strings are sequences of bytes (naturals 0..255); the empty string   *)
(* is << >>.  TaskResult.Duration is a wall-clock measurement that no      *)
(* operation reads, and is left out of the records.                        *)
(***************************************************************************)
EXTENDS Integers, Sequences, FiniteSets, TLC

VARIABLES
    noUI,               \* main: the -no-ui flag
    workerCount,        \* main: the -workers flag (any integer)
    tasks,              \* the task list handed to the scheduler
    plat,               \* the capability descriptor (platform.Platform)
    binaries,           \* the names exec.LookPath resolves on the search path
    mainPc,             \* position of the goroutine running runWithoutUI / runWithUI
    spawnI,             \* loop counter i of the "Spawn workers" loop
    feedI,              \* number of tasks the feed loop has sent
    wg,                 \* sync.WaitGroup counter
    taskChan,           \* buffered work queue (indices into tasks)
    taskChanClosed,
    wpc,                \* wpc[w]: position of worker goroutine w
    widx,               \* widx[w]: the index worker w received
    wres,               \* wres[w]: the TaskResult worker w's Runner.Run is building
    results,            \* runWithoutUI: pre-sized array; runWithUI: appended list
    resultsChan,        \* runWithUI: buffered completion channel
    resultsChanClosed,
    feederPc,           \* runWithUI: the "Feed tasks" goroutine
    closerPc,           \* runWithUI: the wg.Wait(); close(resultsChan) goroutine
    collectorPc,        \* runWithUI: the collecting / reporting goroutine
    events,             \* runWithUI: the messages handed to p.Send, in order
    ret,                \* the slice the scheduler returned (<<FALSE>> before it returns)
    ran,                \* history: ran[i] = the results Runner.Run returned for tasks[i]
    procs,              \* history: procs[i] = subprocesses spawned for tasks[i]
    mode,               \* main: the report format chosen by -minified / -intro
    effects,            \* what the process has done to the outside: file, exit, message
    sources,            \* Loader: the files fs.WalkDir visits under probes/, in its order
    walkI,              \* Loader.LoadAll: number of WalkDir callbacks that have run
    profiles,           \* Loader.LoadAll: the profiles slice
    loadErr,            \* Loader.LoadAll: the error WalkDir stopped with (<< >> for nil)
    loadRet,            \* what LoadAll and GetAllTasks returned (<< >> before they return)
    fin,                \* the arguments a function under study is applied to
    fout                \* what that function returned (<< >> before it returns)

vars == <<noUI, workerCount, tasks, plat, binaries, mainPc, spawnI, feedI, wg,
          taskChan, taskChanClosed, wpc, widx, wres, results, resultsChan,
          resultsChanClosed, feederPc, closerPc, collectorPc, events, ret,
          ran, procs, mode, effects, sources, walkI, profiles, loadErr, loadRet,
          fin, fout>>

\* the state of the loader and of the functions studied on their own
extVars == <<mode, sources, walkI, profiles, loadErr, loadRet, fin, fout>>

\* nothing written, nothing printed, the process still running
NoEffects == [file |-> "none", exit |-> "running", msg |-> FALSE]

\* os.WriteFile: the state of the output file after a write that succeeded or failed
WriteFile(ok) == IF ok THEN "written" ELSE "failed"

\* the loader has not started and no function is under study
ExtIdle ==
    /\ sources = << >>
    /\ walkI = 0
    /\ profiles = << >>
    /\ loadErr = << >>
    /\ loadRet = << >>
    /\ fin = << >>
    /\ fout = << >>

---------------------------------------------------------------------------
(* String literals of the source, as bytes.                                *)

ReasonSudo == <<82, 101, 113, 117, 105, 114, 101, 115, 32, 115, 117, 100, 111, 32, 112, 114, 105, 118, 105, 108, 101, 103, 101, 115>>   \* "Requires sudo privileges"
MissingDepPrefix == <<77, 105, 115, 115, 105, 110, 103, 32, 100, 101, 112, 101, 110, 100, 101, 110, 99, 121, 58, 32>>   \* "Missing dependency: "
EnvMismatchPrefix == <<69, 110, 118, 105, 114, 111, 110, 109, 101, 110, 116, 32, 109, 105, 115, 109, 97, 116, 99, 104, 58, 32, 114, 101, 113, 117, 105, 114, 101, 115, 32>>   \* "Environment mismatch: requires "
OrSep == <<32, 111, 114, 32>>   \* " or "
TimedOutPrefix == <<67, 111, 109, 109, 97, 110, 100, 32, 116, 105, 109, 101, 100, 32, 111, 117, 116, 32, 97, 102, 116, 101, 114, 32>>   \* "Command timed out after "
TimeoutString == <<51, 48, 115>>   \* DefaultTimeout.String() = "30s"
TruncPrefix == <<10, 46, 46, 46, 32, 91, 116, 114, 117, 110, 99, 97, 116, 101, 100, 58, 32, 101, 120, 99, 101, 101, 100, 101, 100, 32>>   \* "\n... [truncated: exceeded "
LinesSuffix == <<32, 108, 105, 110, 101, 115, 93>>   \* " lines]"
UnitLetters == <<75, 77, 71, 84, 80, 69>>   \* "KMGTPE"
Sudo == <<115, 117, 100, 111>>   \* "sudo"
TagWayland == <<119, 97, 121, 108, 97, 110, 100>>   \* "wayland"
TagX11 == <<120, 49, 49>>   \* "x11"
TagHyprland == <<104, 121, 112, 114, 108, 97, 110, 100>>   \* "hyprland"
TagSway == <<115, 119, 97, 121>>   \* "sway"
TagGnome == <<103, 110, 111, 109, 101>>   \* "gnome"
TagKde == <<107, 100, 101>>   \* "kde"
TagPlasma == <<112, 108, 97, 115, 109, 97>>   \* "plasma"
NL == <<10>>          \* "\n"
ByteB == <<66>>       \* "B"
CloseBracket == <<93>>  \* "]"

---------------------------------------------------------------------------
(* Go's strings package, on byte sequences.                                *)

\* strings.Contains(s, sub)
Contains(s, sub) ==
    \E i \in 0..(Len(s) - Len(sub)) : SubSeq(s, i + 1, i + Len(sub)) = sub

\* strings.ToLower, on ASCII
ToLower(s) ==
    [i \in 1..Len(s) |-> IF s[i] \in 65..90 THEN s[i] + 32 ELSE s[i]]

\* strings.Join(list, sep)
RECURSIVE Join(_, _)
Join(list, sep) ==
    IF Len(list) = 0 THEN << >>
    ELSE IF Len(list) = 1 THEN list[1]
    ELSE list[1] \o sep \o Join(Tail(list), sep)

\* strings.Split(s, "\n"): the pieces between the separators, never empty
RECURSIVE SplitFrom(_, _, _)
SplitFrom(s, i, cur) ==
    IF i > Len(s) THEN <<cur>>
    ELSE IF s[i] = 10 THEN <<cur>> \o SplitFrom(s, i + 1, << >>)
    ELSE SplitFrom(s, i + 1, Append(cur, s[i]))

SplitLines(s) == SplitFrom(s, 1, << >>)

\* unicode.IsSpace on one ASCII byte: \t \n \v \f \r and space
IsSpace(b) == b \in 9..13 \/ b = 32

\* strings.TrimSpace, on ASCII
TrimSpace(s) ==
    LET keep == {i \in 1..Len(s) : ~IsSpace(s[i])}
    IN  IF keep = {} THEN << >>
        ELSE SubSeq(s, CHOOSE i \in keep : \A j \in keep : i <= j,
                       CHOOSE i \in keep : \A j \in keep : i >= j)

\* string(rune(r)): the UTF-8 encoding of code point r (U+FFFD when r is
\* no valid code point)
RuneString(r) ==
    IF r < 0 \/ r > 1114111 \/ r \in 55296..57343 THEN <<239, 191, 189>>
    ELSE IF r < 128 THEN <<r>>
    ELSE IF r < 2048 THEN <<192 + (r \div 64), 128 + (r % 64)>>
    ELSE IF r < 65536 THEN
        <<224 + (r \div 4096), 128 + ((r \div 64) % 64), 128 + (r % 64)>>
    ELSE <<240 + (r \div 262144), 128 + ((r \div 4096) % 64),
           128 + ((r \div 64) % 64), 128 + (r % 64)>>

---------------------------------------------------------------------------
(* internal/probe: status values, records, truncation.                     *)

StatusPending == "Pending"
StatusRunning == "Running"
StatusSuccess == "Success"
StatusSkipped == "Skipped"
StatusFailed  == "Failed"

DefaultMaxLines == 500
DefaultMaxBytes == 65536

\* the loop of formatBytes: for n := b / unit; n >= unit; n /= unit
RECURSIVE formatBytesLoop(_, _, _)
formatBytesLoop(n, div, exp) ==
    IF n >= 1024 THEN formatBytesLoop(n \div 1024, div * 1024, exp + 1)
    ELSE [div |-> div, exp |-> exp]

\* formatBytes(b): string(rune(b+'0')) is the one rune b+48, not b in decimal
formatBytes(b) ==
    IF b < 1024 THEN RuneString(b + 48) \o ByteB
    ELSE LET r == formatBytesLoop(b \div 1024, 1024, 0)
         IN  RuneString((b \div r.div) + 48) \o <<UnitLetters[r.exp + 1]>> \o ByteB

\* truncateOutput: if maxLines <= 0 { maxLines = DefaultMaxLines }
effectiveMaxLines(maxLines) == IF maxLines <= 0 THEN DefaultMaxLines ELSE maxLines

\* truncateOutput: if maxBytes <= 0 { maxBytes = DefaultMaxBytes }
effectiveMaxBytes(maxBytes) == IF maxBytes <= 0 THEN DefaultMaxBytes ELSE maxBytes

\* a slip in the byte stage: the comparison is >= and text of exactly maxBytes
\* bytes is cut too
truncateBytesInclusive(output, maxBytes) ==
    IF Len(output) >= maxBytes
    THEN SubSeq(output, 1, maxBytes) \o TruncPrefix \o formatBytes(maxBytes)
         \o CloseBracket
    ELSE output

\* a slip in the byte stage: the last maxBytes bytes are kept, not the first
truncateBytesTail(output, maxBytes) ==
    IF Len(output) > maxBytes
    THEN SubSeq(output, Len(output) - maxBytes + 1, Len(output)) \o TruncPrefix
         \o formatBytes(maxBytes) \o CloseBracket
    ELSE output

\* truncateOutput, "Truncate by bytes first"
truncateBytes(output, maxBytes) ==
    IF Len(output) > maxBytes
    THEN SubSeq(output, 1, maxBytes) \o TruncPrefix \o formatBytes(maxBytes)
         \o CloseBracket
    ELSE output

\* truncateOutput, "Truncate by lines"
truncateLines(output, maxLines) ==
    LET lines == SplitLines(output)
    IN  IF Len(lines) > maxLines
        THEN Join(SubSeq(lines, 1, maxLines), NL) \o TruncPrefix
             \o RuneString(maxLines + 48) \o LinesSuffix
        ELSE output

\* truncateOutput(output, maxLines, maxBytes)
truncateOutput(output, maxLines, maxBytes) ==
    TrimSpace(truncateLines(truncateBytes(output, effectiveMaxBytes(maxBytes)),
                            effectiveMaxLines(maxLines)))

---------------------------------------------------------------------------
(* internal/platform: Platform.MatchesTags.                                *)

\* one iteration of the loop over tags: the switch on the lower-cased tag
TagMatches(p, t) ==
    LET tag == ToLower(t)
    IN  IF tag = TagWayland THEN p.IsWayland
        ELSE IF tag = TagX11 THEN ~p.IsWayland /\ p.WM # << >>
        ELSE IF tag = TagHyprland THEN Contains(p.WM, TagHyprland)
        ELSE IF tag = TagSway THEN Contains(p.WM, TagSway)
        ELSE IF tag = TagGnome THEN Contains(p.WM, TagGnome)
        ELSE IF tag = TagKde \/ tag = TagPlasma
             THEN Contains(p.WM, TagKde) \/ Contains(p.WM, TagPlasma)
        ELSE Contains(p.Distro, tag) \/ Contains(p.WM, tag)

MatchesTags(p, tags) ==
    IF Len(tags) = 0 THEN TRUE
    ELSE \E i \in 1..Len(tags) : TagMatches(p, tags[i])

---------------------------------------------------------------------------
(* internal/probe: Runner.CanRun and Runner.Run.                           *)

\* exec.LookPath(name) succeeds
LookPath(name, bins) == name \in bins

\* a slip in the privilege check: the descriptor's flag read the wrong way round
PrivilegeFailsWhenRoot(task, p) == task.Privilege = Sudo /\ p.IsRoot

\* the three checks of CanRun, each on its own
PrivilegeFails(task, p) == task.Privilege = Sudo /\ ~p.IsRoot

MissingDeps(task, bins) ==
    {i \in 1..Len(task.Requires) : ~LookPath(task.Requires[i], bins)}

TagsFail(task, p) == Len(task.Tags) > 0 /\ ~MatchesTags(p, task.Tags)

\* a slip in the dependency loop: it goes on after the first missing entry and
\* reports the last one
LastMissing(task, bins) ==
    task.Requires[CHOOSE i \in MissingDeps(task, bins) :
                      \A j \in MissingDeps(task, bins) : i >= j]

FirstMissing(task, bins) ==
    task.Requires[CHOOSE i \in MissingDeps(task, bins) :
                      \A j \in MissingDeps(task, bins) : i <= j]

\* a slip in the order of the checks: tags before dependencies
CanRunTagsFirst(task, p, bins) ==
    IF PrivilegeFails(task, p) THEN [ok |-> FALSE, reason |-> ReasonSudo]
    ELSE IF TagsFail(task, p)
         THEN [ok |-> FALSE, reason |-> EnvMismatchPrefix \o Join(task.Tags, OrSep)]
    ELSE IF MissingDeps(task, bins) # {}
         THEN [ok |-> FALSE, reason |-> MissingDepPrefix \o FirstMissing(task, bins)]
    ELSE [ok |-> TRUE, reason |-> << >>]

\* Runner.CanRun(task): (bool, string)
CanRun(task, p, bins) ==
    IF PrivilegeFails(task, p) THEN [ok |-> FALSE, reason |-> ReasonSudo]
    ELSE IF MissingDeps(task, bins) # {}
         THEN [ok |-> FALSE, reason |-> MissingDepPrefix \o FirstMissing(task, bins)]
    ELSE IF TagsFail(task, p)
         THEN [ok |-> FALSE, reason |-> EnvMismatchPrefix \o Join(task.Tags, OrSep)]
    ELSE [ok |-> TRUE, reason |-> << >>]

\* the zero value of probe.TaskResult
ZeroResult ==
    [Name |-> << >>, Command |-> << >>, Category |-> << >>,
     Status |-> StatusPending, Output |-> << >>, Error |-> << >>,
     SkipReason |-> << >>]

\* Run, lines 124-129: the result Run starts from
NewResult(task) ==
    [ZeroResult EXCEPT !.Name = task.Name, !.Command = task.Command,
                       !.Category = task.Category]

\* a slip in the skip branch: the reason is not stored
SkippedResultNoReason(task, reason) ==
    [NewResult(task) EXCEPT !.Status = StatusSkipped]

\* Run, lines 133-137: the result of an ineligible task
SkippedResult(task, reason) ==
    [NewResult(task) EXCEPT !.Status = StatusSkipped, !.SkipReason = reason]

\* err.Error() of the error cmd.Run returned
ExitStatus1 == <<101, 120, 105, 116, 32, 115, 116, 97, 116, 117, 115, 32, 49>>   \* "exit status 1"
SignalKilled == <<115, 105, 103, 110, 97, 108, 58, 32, 107, 105, 108, 108, 101, 100>>   \* "signal: killed"
ErrText(o) == IF o.killed THEN SignalKilled ELSE ExitStatus1

\* Run, lines 155-172: from what the subprocess did to the result.
\*   o.err      cmd.Run returned a non-nil error
\*   o.killed   the subprocess was still running at the deadline and was killed
\*   o.deadline ctx.Err() = context.DeadlineExceeded when line 160 reads it
FinishResult(task, o) ==
    LET out  == truncateOutput(o.stdout, task.MaxLines, task.MaxBytes)
        errb == truncateOutput(o.stderr, task.MaxLines, task.MaxBytes)
        r    == [NewResult(task) EXCEPT !.Output = out, !.Error = errb]
    IN  IF o.deadline
        THEN [r EXCEPT !.Status = StatusFailed,
                       !.Error = TimedOutPrefix \o TimeoutString]
        ELSE IF o.err
        THEN [r EXCEPT !.Status = StatusFailed,
                       !.Error = IF errb = << >> THEN ErrText(o) ELSE errb]
        ELSE [r EXCEPT !.Status = StatusSuccess]

\* Runner.Run(task), as a function of the environment and of what the
\* subprocess does when one is spawned
Run(task, p, bins, o) ==
    LET c == CanRun(task, p, bins)
    IN  IF ~c.ok THEN SkippedResult(task, c.reason) ELSE FinishResult(task, o)


---------------------------------------------------------------------------
(* Bounds and the inputs drawn within them.                                *)

MaxLoad     == 4     \* scheduler runs: tasks plus workers is at most this
MaxRequires == 2     \* longest requires list of a task given to Runner.Run
MaxTags     == 1     \* longest tags list of a task given to Runner.Run

NameA == <<65>>      \* "A"
NameB == <<66>>      \* "B"
CmdX  == <<120>>     \* "x"
CmdY  == <<121>>     \* "y"
CmdZ  == <<122>>     \* "z"
CatC  == <<99>>      \* "c"
BinFoo == <<102, 111, 111>>   \* "foo"
BinXyz == <<120, 121, 122>>   \* "xyz"
DistroArch == <<97, 114, 99, 104>>   \* "arch"
DistroIDArch == <<97, 114, 99, 104, 95, 108, 105, 110, 117, 120>>   \* "arch_linux"
OSLinux == <<108, 105, 110, 117, 120>>   \* "linux"
TagArch == <<65, 114, 99, 104>>      \* "Arch"
TagX11Upper == <<88, 49, 49>>        \* "X11"
OutA   == <<97>>                     \* "a"
OutABC == <<97, 10, 98, 10, 99>>     \* "a\nb\nc"
ErrE   == <<101>>                    \* "e"

\* the sequences over S of length at most n
SeqsUpTo(S, n) == UNION {[1..k -> S] : k \in 0..n}

Bins == {BinFoo, BinXyz}
TagPool == {TagWayland, TagX11Upper, TagSway, TagArch}

\* what a subprocess can do (see FinishResult)
ProcOutcomes ==
    {o \in [err : BOOLEAN, killed : BOOLEAN, deadline : BOOLEAN,
            stdout : {<< >>, OutA, OutABC}, stderr : {<< >>, ErrE}] :
        o.killed => (o.err /\ o.deadline)}

NoOutcome ==
    [err |-> FALSE, killed |-> FALSE, deadline |-> FALSE,
     stdout |-> << >>, stderr |-> << >>]

\* the tasks and environments Runner.Run is applied to on its own
RunTasks ==
    {[Name |-> NameA, Command |-> CmdX, Privilege |-> pr,
      MaxLines |-> lim[1], MaxBytes |-> lim[2],
      Requires |-> rq, Tags |-> tg, Category |-> CatC] :
        pr \in {<< >>, Sudo}, lim \in {<<0, 0>>, <<2, 0>>, <<0, 3>>},
        rq \in SeqsUpTo(Bins, MaxRequires), tg \in SeqsUpTo(TagPool, MaxTags)}

RunPlats ==
    [OS : {OSLinux}, Distro : {DistroArch}, DistroID : {DistroIDArch},
     WM : {<< >>, TagSway}, IsRoot : BOOLEAN, IsWayland : BOOLEAN]

\* the tasks the scheduler is given: an eligible one, one that needs sudo, and
\* an eligible one sharing the first one's name
TaskA == [Name |-> NameA, Command |-> CmdX, Privilege |-> << >>, MaxLines |-> 0,
          MaxBytes |-> 0, Requires |-> << >>, Tags |-> << >>, Category |-> CatC]
TaskB == [TaskA EXCEPT !.Name = NameB, !.Command = CmdY, !.Privilege = Sudo]
TaskA2 == [TaskA EXCEPT !.Command = CmdZ]
TaskPool == {TaskA, TaskB, TaskA2}

SchedPlat ==
    [OS |-> OSLinux, Distro |-> DistroArch, DistroID |-> DistroIDArch,
     WM |-> TagSway, IsRoot |-> FALSE, IsWayland |-> TRUE]

\* in the scheduler: a clean exit with output, a kill at the deadline
SchedOutcomes ==
    {[NoOutcome EXCEPT !.stdout = OutA],
     [NoOutcome EXCEPT !.err = TRUE, !.killed = TRUE, !.deadline = TRUE]}

Workers == 1..MaxLoad
N == Len(tasks)

---------------------------------------------------------------------------
(* Runner.Run, as the two steps a worker takes through it.                 *)

\* where a worker goes when Run returns
AfterRun == IF noUI THEN "store" ELSE "push"

Ran(res, spawned, o) == [res |-> res, spawned |-> spawned, o |-> o]

\* Run up to cmd.Run(): the eligibility check, then the spawn
RunBegin(w) ==
    /\ wpc[w] = "run"
    /\ LET t == tasks[widx[w]]
           c == CanRun(t, plat, binaries)
       IN  IF ~c.ok
           THEN /\ wres' = [wres EXCEPT ![w] = SkippedResult(t, c.reason)]
                /\ wpc' = [wpc EXCEPT ![w] = AfterRun]
                /\ ran' = [ran EXCEPT ![widx[w]] =
                              Append(@, Ran(SkippedResult(t, c.reason), FALSE, NoOutcome))]
                /\ UNCHANGED procs
           ELSE /\ wres' = [wres EXCEPT ![w] = NewResult(t)]
                /\ wpc' = [wpc EXCEPT ![w] = "exec"]
                /\ procs' = [procs EXCEPT ![widx[w]] = @ + 1]
                /\ UNCHANGED ran
    /\ UNCHANGED <<extVars, effects,
                   noUI, workerCount, tasks, plat, binaries, mainPc, spawnI, feedI,
                   wg, taskChan, taskChanClosed, widx, results, resultsChan,
                   resultsChanClosed, feederPc, closerPc, collectorPc, events, ret>>

\* Run from the return of cmd.Run() to its own return
RunEnd(w, outcomes) ==
    /\ wpc[w] = "exec"
    /\ \E o \in outcomes :
         LET r == FinishResult(tasks[widx[w]], o)
         IN  /\ wres' = [wres EXCEPT ![w] = r]
             /\ ran' = [ran EXCEPT ![widx[w]] = Append(@, Ran(r, TRUE, o))]
    /\ wpc' = [wpc EXCEPT ![w] = AfterRun]
    /\ UNCHANGED <<extVars, effects,
                   noUI, workerCount, tasks, plat, binaries, mainPc, spawnI, feedI,
                   wg, taskChan, taskChanClosed, widx, results, resultsChan,
                   resultsChanClosed, feederPc, closerPc, collectorPc, events, ret,
                   procs>>

\* Runner.Run applied to one task: a worker that has just called it
InitRun ==
    /\ noUI = TRUE
    /\ workerCount = 1
    /\ tasks \in {<<t>> : t \in RunTasks}
    /\ plat \in RunPlats
    /\ binaries \in SUBSET Bins
    /\ mainPc = "wait"
    /\ spawnI = 1
    /\ feedI = 1
    /\ wg = 1
    /\ taskChan = << >>
    /\ taskChanClosed = TRUE
    /\ wpc = [w \in Workers |-> IF w = 1 THEN "run" ELSE "idle"]
    /\ widx = [w \in Workers |-> IF w = 1 THEN 1 ELSE 0]
    /\ wres = [w \in Workers |-> ZeroResult]
    /\ results = <<ZeroResult>>
    /\ resultsChan = << >>
    /\ resultsChanClosed = FALSE
    /\ feederPc = "idle"
    /\ closerPc = "idle"
    /\ collectorPc = "idle"
    /\ events = << >>
    /\ ret = << >>
    /\ ran = <<<< >>>>
    /\ procs = <<0>>
    /\ mode = "full"
    /\ effects = NoEffects
    /\ ExtIdle

RunStart == RunBegin(1)
RunFinish == RunEnd(1, ProcOutcomes)

NextRun == RunStart \/ RunFinish

SpecRun == InitRun /\ [][NextRun]_vars


---------------------------------------------------------------------------
(* cmd main: runWithoutUI and runWithUI.                                   *)

Msg(type, name, result, list) ==
    [type |-> type, Name |-> name, Result |-> result, Results |-> list]

\* the state when the scheduler has made its channels and results slice
Init ==
    /\ noUI \in BOOLEAN
    /\ workerCount \in -1..MaxLoad
    /\ tasks \in SeqsUpTo(TaskPool, MaxLoad)
    /\ Len(tasks) + workerCount <= MaxLoad
    /\ plat = SchedPlat
    /\ binaries = {BinFoo}
    /\ mainPc = "spawn"
    /\ spawnI = 0
    /\ feedI = 0
    /\ wg = 0
    /\ taskChan = << >>
    /\ taskChanClosed = FALSE
    /\ wpc = [w \in Workers |-> "idle"]
    /\ widx = [w \in Workers |-> 0]
    /\ wres = [w \in Workers |-> ZeroResult]
    /\ results = IF noUI THEN [i \in 1..Len(tasks) |-> ZeroResult] ELSE << >>
    /\ resultsChan = << >>
    /\ resultsChanClosed = FALSE
    /\ feederPc = "idle"
    /\ closerPc = "idle"
    /\ collectorPc = "idle"
    /\ events = << >>
    /\ ret = << >>
    /\ ran = [i \in 1..Len(tasks) |-> << >>]
    /\ procs = [i \in 1..Len(tasks) |-> 0]
    /\ mode = "full"
    /\ effects = NoEffects
    /\ ExtIdle

\* the process is alive: main has not returned from the scheduler's caller
Alive == noUI \/ mainPc # "returned"

\* for i := 0; i < workerCount; i++ { wg.Add(1); go func() {...}() }
SpawnWorker ==
    /\ mainPc = "spawn"
    /\ spawnI < workerCount
    /\ wg' = wg + 1
    /\ wpc' = [wpc EXCEPT ![spawnI + 1] = "recv"]
    /\ spawnI' = spawnI + 1
    /\ UNCHANGED <<extVars, effects,
                   noUI, workerCount, tasks, plat, binaries, mainPc, feedI,
                   taskChan, taskChanClosed, widx, wres, results, resultsChan,
                   resultsChanClosed, feederPc, closerPc, collectorPc, events, ret,
                   ran, procs>>

\* the spawn loop ends; runWithUI then starts its three goroutines
SpawnDone ==
    /\ mainPc = "spawn"
    /\ spawnI >= workerCount
    /\ IF noUI
       THEN /\ mainPc' = "feed"
            /\ UNCHANGED <<feederPc, closerPc, collectorPc>>
       ELSE /\ mainPc' = "runui"
            /\ feederPc' = "feed"
            /\ closerPc' = "wait"
            /\ collectorPc' = "collect"
    /\ UNCHANGED <<extVars, effects,
                   noUI, workerCount, tasks, plat, binaries, spawnI, feedI, wg,
                   taskChan, taskChanClosed, wpc, widx, wres, results, resultsChan,
                   resultsChanClosed, events, ret, ran, procs>>

\* runWithoutUI: for i := range tasks { taskChan <- i }
NoUIFeed ==
    /\ noUI /\ mainPc = "feed"
    /\ feedI < N
    /\ Len(taskChan) < N
    /\ taskChan' = Append(taskChan, feedI + 1)
    /\ feedI' = feedI + 1
    /\ UNCHANGED <<extVars, effects,
                   noUI, workerCount, tasks, plat, binaries, mainPc, spawnI, wg,
                   taskChanClosed, wpc, widx, wres, results, resultsChan,
                   resultsChanClosed, feederPc, closerPc, collectorPc, events, ret,
                   ran, procs>>

\* a slip in runWithoutUI: the queue is left open
NoUICloseForgotten ==
    /\ noUI /\ mainPc = "feed"
    /\ feedI = N
    /\ taskChanClosed' = taskChanClosed
    /\ mainPc' = "wait"
    /\ UNCHANGED <<extVars, effects,
                   noUI, workerCount, tasks, plat, binaries, spawnI, feedI, wg,
                   taskChan, wpc, widx, wres, results, resultsChan,
                   resultsChanClosed, feederPc, closerPc, collectorPc, events, ret,
                   ran, procs>>

\* runWithoutUI: close(taskChan)
NoUIClose ==
    /\ noUI /\ mainPc = "feed"
    /\ feedI = N
    /\ taskChanClosed' = TRUE
    /\ mainPc' = "wait"
    /\ UNCHANGED <<extVars, effects,
                   noUI, workerCount, tasks, plat, binaries, spawnI, feedI, wg,
                   taskChan, wpc, widx, wres, results, resultsChan,
                   resultsChanClosed, feederPc, closerPc, collectorPc, events, ret,
                   ran, procs>>

\* runWithoutUI: wg.Wait(); return results
NoUIReturn ==
    /\ noUI /\ mainPc = "wait"
    /\ wg = 0
    /\ mainPc' = "returned"
    /\ ret' = results
    /\ UNCHANGED <<extVars, effects,
                   noUI, workerCount, tasks, plat, binaries, spawnI, feedI, wg,
                   taskChan, taskChanClosed, wpc, widx, wres, results, resultsChan,
                   resultsChanClosed, feederPc, closerPc, collectorPc, events,
                   ran, procs>>

\* a slip in the receive: the index is read and left on the queue
WorkerRecvNoPop(w) ==
    /\ Alive
    /\ wpc[w] = "recv"
    /\ taskChan # << >>
    /\ widx' = [widx EXCEPT ![w] = Head(taskChan)]
    /\ taskChan' = taskChan
    /\ wpc' = [wpc EXCEPT ![w] = IF noUI THEN "run" ELSE "start"]
    /\ UNCHANGED <<extVars, effects,
                   noUI, workerCount, tasks, plat, binaries, mainPc, spawnI, feedI,
                   wg, taskChanClosed, wres, results, resultsChan,
                   resultsChanClosed, feederPc, closerPc, collectorPc, events, ret,
                   ran, procs>>

\* a worker's "for ... := range taskChan" receives
WorkerRecv(w) ==
    /\ Alive
    /\ wpc[w] = "recv"
    /\ taskChan # << >>
    /\ widx' = [widx EXCEPT ![w] = Head(taskChan)]
    /\ taskChan' = Tail(taskChan)
    /\ wpc' = [wpc EXCEPT ![w] = IF noUI THEN "run" ELSE "start"]
    /\ UNCHANGED <<extVars, effects,
                   noUI, workerCount, tasks, plat, binaries, mainPc, spawnI, feedI,
                   wg, taskChanClosed, wres, results, resultsChan,
                   resultsChanClosed, feederPc, closerPc, collectorPc, events, ret,
                   ran, procs>>

\* a slip in the worker loop: it ends on an empty queue, closed or not
WorkerExitOnEmpty(w) ==
    /\ Alive
    /\ wpc[w] = "recv"
    /\ taskChan = << >>
    /\ wpc' = [wpc EXCEPT ![w] = "done"]
    /\ wg' = wg - 1
    /\ UNCHANGED <<extVars, effects,
                   noUI, workerCount, tasks, plat, binaries, mainPc, spawnI, feedI,
                   taskChan, taskChanClosed, widx, wres, results, resultsChan,
                   resultsChanClosed, feederPc, closerPc, collectorPc, events, ret,
                   ran, procs>>

\* the range loop ends on the closed, empty channel; defer wg.Done()
WorkerExit(w) ==
    /\ Alive
    /\ wpc[w] = "recv"
    /\ taskChan = << >>
    /\ taskChanClosed
    /\ wpc' = [wpc EXCEPT ![w] = "done"]
    /\ wg' = wg - 1
    /\ UNCHANGED <<extVars, effects,
                   noUI, workerCount, tasks, plat, binaries, mainPc, spawnI, feedI,
                   taskChan, taskChanClosed, widx, wres, results, resultsChan,
                   resultsChanClosed, feederPc, closerPc, collectorPc, events, ret,
                   ran, procs>>

\* a slip in the worker loop: a worker whose task failed leaves the loop
NoUIStoreStopOnFailure(w) ==
    /\ wpc[w] = "store"
    /\ results' = [results EXCEPT ![widx[w]] = wres[w]]
    /\ IF wres[w].Status = StatusFailed
       THEN wpc' = [wpc EXCEPT ![w] = "done"] /\ wg' = wg - 1
       ELSE wpc' = [wpc EXCEPT ![w] = "recv"] /\ wg' = wg
    /\ UNCHANGED <<extVars, effects,
                   noUI, workerCount, tasks, plat, binaries, mainPc, spawnI, feedI,
                   taskChan, taskChanClosed, widx, wres, resultsChan,
                   resultsChanClosed, feederPc, closerPc, collectorPc, events, ret,
                   ran, procs>>

\* runWithoutUI: results[idx] = result (and the progress line)
NoUIStore(w) ==
    /\ wpc[w] = "store"
    /\ results' = [results EXCEPT ![widx[w]] = wres[w]]
    /\ wpc' = [wpc EXCEPT ![w] = "recv"]
    /\ UNCHANGED <<extVars, effects,
                   noUI, workerCount, tasks, plat, binaries, mainPc, spawnI, feedI,
                   wg, taskChan, taskChanClosed, widx, wres, resultsChan,
                   resultsChanClosed, feederPc, closerPc, collectorPc, events, ret,
                   ran, procs>>

\* p.Run(): the event loop starts to take the messages handed to p.Send
UIRun ==
    /\ mainPc = "runui"
    /\ mainPc' = "ui"
    /\ UNCHANGED <<extVars, effects,
                   noUI, workerCount, tasks, plat, binaries, spawnI, feedI, wg,
                   taskChan, taskChanClosed, wpc, widx, wres, results, resultsChan,
                   resultsChanClosed, feederPc, closerPc, collectorPc, events, ret,
                   ran, procs>>

\* the event loop ends: the report is written (ReportDoneMsg has set
\* waitingInput) and the user presses enter; runWithUI returns results and main
\* returns.  (ctrl+c / q end the process at any other state: the run then
\* simply does not continue.)
UIExit ==
    /\ mainPc = "ui"
    /\ collectorPc = "done"
    /\ mainPc' = "returned"
    /\ ret' = results
    /\ effects' = [effects EXCEPT !.exit = "ok"]
    /\ UNCHANGED <<extVars,
                   noUI, workerCount, tasks, plat, binaries, spawnI, feedI, wg,
                   taskChan, taskChanClosed, wpc, widx, wres, results, resultsChan,
                   resultsChanClosed, feederPc, closerPc, collectorPc, events,
                   ran, procs>>

\* runWithUI, "Feed tasks": taskChan <- task
UIFeed ==
    /\ Alive
    /\ feederPc = "feed"
    /\ feedI < N
    /\ Len(taskChan) < N
    /\ taskChan' = Append(taskChan, feedI + 1)
    /\ feedI' = feedI + 1
    /\ UNCHANGED <<extVars, effects,
                   noUI, workerCount, tasks, plat, binaries, mainPc, spawnI, wg,
                   taskChanClosed, wpc, widx, wres, results, resultsChan,
                   resultsChanClosed, feederPc, closerPc, collectorPc, events, ret,
                   ran, procs>>

\* runWithUI, "Feed tasks": close(taskChan)
UIFeedClose ==
    /\ Alive
    /\ feederPc = "feed"
    /\ feedI = N
    /\ taskChanClosed' = TRUE
    /\ feederPc' = "done"
    /\ UNCHANGED <<extVars, effects,
                   noUI, workerCount, tasks, plat, binaries, mainPc, spawnI, feedI,
                   wg, taskChan, wpc, widx, wres, results, resultsChan,
                   resultsChanClosed, closerPc, collectorPc, events, ret, ran, procs>>

\* runWithUI worker: p.Send(ui.TaskStartMsg{Name: task.Name})
UISendStart(w) ==
    /\ mainPc = "ui"
    /\ wpc[w] = "start"
    /\ events' = Append(events, Msg("TaskStartMsg", tasks[widx[w]].Name, ZeroResult, << >>))
    /\ wpc' = [wpc EXCEPT ![w] = "run"]
    /\ UNCHANGED <<extVars, effects,
                   noUI, workerCount, tasks, plat, binaries, mainPc, spawnI, feedI,
                   wg, taskChan, taskChanClosed, widx, wres, results, resultsChan,
                   resultsChanClosed, feederPc, closerPc, collectorPc, ret, ran, procs>>

\* runWithUI worker: resultsChan <- result
UIPush(w) ==
    /\ Alive
    /\ wpc[w] = "push"
    /\ Len(resultsChan) < N
    /\ resultsChan' = Append(resultsChan, wres[w])
    /\ wpc' = [wpc EXCEPT ![w] = "notify"]
    /\ UNCHANGED <<extVars, effects,
                   noUI, workerCount, tasks, plat, binaries, mainPc, spawnI, feedI,
                   wg, taskChan, taskChanClosed, widx, wres, results,
                   resultsChanClosed, feederPc, closerPc, collectorPc, events, ret,
                   ran, procs>>

\* runWithUI worker: p.Send(ui.TaskDoneMsg{Result: result})
UISendDone(w) ==
    /\ mainPc = "ui"
    /\ wpc[w] = "notify"
    /\ events' = Append(events, Msg("TaskDoneMsg", << >>, wres[w], << >>))
    /\ wpc' = [wpc EXCEPT ![w] = "recv"]
    /\ UNCHANGED <<extVars, effects,
                   noUI, workerCount, tasks, plat, binaries, mainPc, spawnI, feedI,
                   wg, taskChan, taskChanClosed, widx, wres, results, resultsChan,
                   resultsChanClosed, feederPc, closerPc, collectorPc, ret, ran, procs>>

\* runWithUI: wg.Wait(); close(resultsChan)
UICloseResults ==
    /\ Alive
    /\ closerPc = "wait"
    /\ wg = 0
    /\ resultsChanClosed' = TRUE
    /\ closerPc' = "done"
    /\ UNCHANGED <<extVars, effects,
                   noUI, workerCount, tasks, plat, binaries, mainPc, spawnI, feedI,
                   wg, taskChan, taskChanClosed, wpc, widx, wres, results,
                   resultsChan, feederPc, collectorPc, events, ret, ran, procs>>

\* runWithUI: for result := range resultsChan { results = append(results, result) }
UICollect ==
    /\ Alive
    /\ collectorPc = "collect"
    /\ resultsChan # << >>
    /\ results' = Append(results, Head(resultsChan))
    /\ resultsChan' = Tail(resultsChan)
    /\ UNCHANGED <<extVars, effects,
                   noUI, workerCount, tasks, plat, binaries, mainPc, spawnI, feedI,
                   wg, taskChan, taskChanClosed, wpc, widx, wres,
                   resultsChanClosed, feederPc, closerPc, collectorPc, events, ret,
                   ran, procs>>

\* runWithUI: the range over resultsChan ends
UICollectEnd ==
    /\ Alive
    /\ collectorPc = "collect"
    /\ resultsChan = << >>
    /\ resultsChanClosed
    /\ collectorPc' = "alldone"
    /\ UNCHANGED <<extVars, effects,
                   noUI, workerCount, tasks, plat, binaries, mainPc, spawnI, feedI,
                   wg, taskChan, taskChanClosed, wpc, widx, wres, results,
                   resultsChan, resultsChanClosed, feederPc, closerPc, events, ret,
                   ran, procs>>

\* runWithUI: p.Send(ui.AllDoneMsg{Results: results})
UISendAllDone ==
    /\ mainPc = "ui"
    /\ collectorPc = "alldone"
    /\ events' = Append(events, Msg("AllDoneMsg", << >>, ZeroResult, results))
    /\ collectorPc' = "report"
    /\ UNCHANGED <<extVars, effects,
                   noUI, workerCount, tasks, plat, binaries, mainPc, spawnI, feedI,
                   wg, taskChan, taskChanClosed, wpc, widx, wres, results,
                   resultsChan, resultsChanClosed, feederPc, closerPc, ret, ran, procs>>

\* runWithUI: the report is generated (no generator returns an error);
\* _ = os.WriteFile(...) succeeds or fails; p.Send(ui.ReportDoneMsg{...})
UISendReportDone ==
    /\ mainPc = "ui"
    /\ collectorPc = "report"
    /\ \E ok \in BOOLEAN : effects' = [effects EXCEPT !.file = WriteFile(ok)]
    /\ events' = Append(events, Msg("ReportDoneMsg", << >>, ZeroResult, << >>))
    /\ collectorPc' = "done"
    /\ UNCHANGED <<extVars,
                   noUI, workerCount, tasks, plat, binaries, mainPc, spawnI, feedI,
                   wg, taskChan, taskChanClosed, wpc, widx, wres, results,
                   resultsChan, resultsChanClosed, feederPc, closerPc, ret, ran, procs>>

WorkerStep(w) ==
    \/ WorkerRecv(w)
    \/ WorkerExit(w)
    \/ (Alive /\ RunBegin(w))
    \/ (Alive /\ RunEnd(w, SchedOutcomes))
    \/ NoUIStore(w)
    \/ UISendStart(w)
    \/ UIPush(w)
    \/ UISendDone(w)

Next ==
    \/ SpawnWorker
    \/ SpawnDone
    \/ NoUIFeed
    \/ NoUIClose
    \/ NoUIReturn
    \/ UIRun
    \/ UIExit
    \/ UIFeed
    \/ UIFeedClose
    \/ UICloseResults
    \/ UICollect
    \/ UICollectEnd
    \/ UISendAllDone
    \/ UISendReportDone
    \/ \E w \in Workers : WorkerStep(w)

Spec == Init /\ [][Next]_vars


---------------------------------------------------------------------------
(* Properties of the scheduler.                                            *)

\* runWithoutUI has returned
Returned == noUI /\ mainPc = "returned"

\* Runner.Run was called exactly once for tasks[i] and has returned
RanOnce(i) == Len(ran[i]) = 1

\* the result Runner.Run returned for tasks[i]
Produced(i) == ran[i][1].res

\* result r belongs to task t: same name, command and category
SameTask(r, t) ==
    r.Name = t.Name /\ r.Command = t.Command /\ r.Category = t.Category

\* the workers inside Runner.Run
InRun == {w \in Workers : wpc[w] \in {"run", "exec"}}

Occurrences(list, x) == Cardinality({k \in 1..Len(list) : list[k] = x})

\* the list the scheduler hands on: what runWithoutUI returns; in runWithUI
\* the list the collector has when its range loop ends (sent in AllDoneMsg,
\* copied for the report)
FinalListReady ==
    \/ noUI /\ mainPc = "returned"
    \/ ~noUI /\ collectorPc \in {"alldone", "report", "done"}

FinalList == IF noUI THEN ret ELSE results

\* every task has exactly one entry in list, the one Runner.Run produced for it
OneEntryPerTask(list) ==
    /\ Len(list) = N
    /\ \A i \in 1..N : RanOnce(i)
    /\ \A i \in 1..N :
         Occurrences(list, Produced(i))
           = Cardinality({j \in 1..N : Produced(j) = Produced(i)})

\* the array runWithoutUI returns is index-addressed
IndexAddressed(list) ==
    /\ Len(list) = N
    /\ \A i \in 1..N :
         RanOnce(i) /\ list[i] = Produced(i) /\ SameTask(list[i], tasks[i])

\* C1: for every task list of size N >= 0 and every interleaving, runWithoutUI
\* returns exactly N results and result[i] is the result produced by running
\* task[i] (same name, command and category).
C1_IndexAddressedOrder == Returned => IndexAddressed(ret)

\* C1, with at least one worker: the statement then holds.
C1_WithWorkers == (Returned /\ workerCount >= 1) => IndexAddressed(ret)

\* C2: for every worker count the caller can pass, 0 and negative included, and
\* in both modes, every input task has exactly one entry in the final result
\* list, produced by Runner.Run for that task.
C2_OneEntryPerTask == FinalListReady => OneEntryPerTask(FinalList)

\* C2, with at least one worker: the statement then holds in both modes.
C2_WithWorkers == (FinalListReady /\ workerCount >= 1) => OneEntryPerTask(FinalList)

\* C3: when runWithoutUI returns, every worker has exhausted the queue: every
\* queued index has been claimed and its slot written, and no worker writes to
\* a slot after the return (the array stays what was returned).
C3_ReturnAfterDrain ==
    Returned =>
        /\ feedI = N /\ taskChan = << >>
        /\ \A w \in Workers : wpc[w] \in {"idle", "done"}
        /\ \A i \in 1..N : RanOnce(i) /\ results[i] = Produced(i)
        /\ results = ret

\* C3, with at least one worker: the statement then holds.
C3_WithWorkers == workerCount >= 1 => C3_ReturnAfterDrain

\* C4: with worker count w >= 1, in both modes, never more than w tasks are
\* inside Runner.Run at once, and a worker leaves its loop only when every task
\* has been queued and the queue is closed and empty.
C4_BoundedParallelism ==
    workerCount >= 1 =>
        /\ Cardinality(InRun) <= workerCount
        /\ \A w \in Workers :
             wpc[w] = "done" => (feedI = N /\ taskChanClosed /\ taskChan = << >>)

\* C4's case: two workers, both inside Runner.Run with a subprocess each
C4_Witness ==
    /\ workerCount = 2
    /\ Cardinality({w \in Workers : wpc[w] = "exec"}) = 2

\* the lifecycle state of tasks[i]
TaskState(i) ==
    IF ran[i] # << >> THEN ran[i][1].res.Status
    ELSE IF \E w \in Workers : widx[w] = i /\ wpc[w] = "exec" THEN StatusRunning
    ELSE StatusPending

TaskStep(a, b) ==
    \/ a = b
    \/ a = StatusPending /\ b \in {StatusSkipped, StatusRunning}
    \/ a = StatusRunning /\ b \in {StatusSuccess, StatusFailed}

\* C5: each task goes Pending -> Skipped or Pending -> Running -> {Success,
\* Failed}; within one scheduler invocation it is run at most once, and every
\* result Runner.Run returns has a terminal status.
C5_TaskStateMachine ==
    /\ [](\A i \in 1..N :
            /\ Len(ran[i]) <= 1
            /\ procs[i] <= 1
            /\ Cardinality({w \in Workers :
                              widx[w] = i /\ wpc[w] \in {"start", "run", "exec"}})
                 + Len(ran[i]) <= 1
            /\ \A k \in 1..Len(ran[i]) :
                 ran[i][k].res.Status \in {StatusSkipped, StatusSuccess, StatusFailed})
    /\ [][\A i \in 1..N : TaskStep(TaskState(i), TaskState(i)')]_vars

\* C5's case: one task ran to Success through a subprocess while another was
\* skipped
C5_Witness ==
    \E i, j \in 1..N :
        /\ RanOnce(i) /\ Produced(i).Status = StatusSuccess /\ procs[i] = 1
        /\ RanOnce(j) /\ Produced(j).Status = StatusSkipped /\ procs[j] = 0


---------------------------------------------------------------------------
(* Properties of Runner.Run.                                               *)

\* every call of Runner.Run that has returned: the task's index and the record
\* of what it returned
Calls == UNION {{<<i, k>> : k \in 1..Len(ran[i])} : i \in 1..N}

\* the entries of requires that exec.LookPath does not resolve
Unresolved(t) == {j \in 1..Len(t.Requires) : t.Requires[j] \notin binaries}

\* C6: for every result of Runner.Run, SkipReason is non-empty iff Status is
\* Skipped, and exactly one of normal completion (Success), skip (Skipped) and
\* failure (Failed) applies.
C6_SkipReasonIffSkipped ==
    \A c \in Calls :
        LET r == ran[c[1]][c[2]].res
        IN  /\ (r.SkipReason # << >>) <=> (r.Status = StatusSkipped)
            /\ Cardinality({st \in {StatusSuccess, StatusSkipped, StatusFailed} :
                              r.Status = st}) = 1

\* C6's case: a call that was skipped for unmatched tags and carries the reason
C6_Witness ==
    \E c \in Calls :
        /\ ran[c[1]][c[2]].res.Status = StatusSkipped
        /\ ran[c[1]][c[2]].res.SkipReason # << >>
        /\ tasks[c[1]].Tags # << >>
        /\ tasks[c[1]].Requires = << >>
        /\ tasks[c[1]].Privilege = << >>

\* C7: a task with privilege "sudo" under a non-elevated descriptor always
\* yields Skipped and no subprocess is spawned for it, whatever its requires,
\* tags and command.
C7_SudoSkippedNoSubprocess ==
    \A i \in 1..N :
        (tasks[i].Privilege = Sudo /\ ~plat.IsRoot) =>
            /\ procs[i] = 0
            /\ \A w \in Workers : widx[w] = i => wpc[w] # "exec"
            /\ \A k \in 1..Len(ran[i]) :
                 /\ ran[i][k].res.Status = StatusSkipped
                 /\ ~ran[i][k].spawned

\* C7's case: Run has returned for a sudo task whose dependencies resolve and
\* whose tag matches, under a non-elevated descriptor
C7_Witness ==
    \E i \in 1..N :
        /\ tasks[i].Privilege = Sudo /\ ~plat.IsRoot
        /\ tasks[i].Requires # << >> /\ Unresolved(tasks[i]) = {}
        /\ tasks[i].Tags # << >> /\ MatchesTags(plat, tasks[i].Tags)
        /\ RanOnce(i)

\* C8 as stated: a task whose requires holds an unresolvable binary always
\* yields Skipped with a reason that names that binary, whatever its other
\* fields and the descriptor.
C8_ReasonNamesBinary ==
    \A c \in Calls :
        \A j \in Unresolved(tasks[c[1]]) :
            /\ ran[c[1]][c[2]].res.Status = StatusSkipped
            /\ Contains(ran[c[1]][c[2]].res.SkipReason, tasks[c[1]].Requires[j])

\* C8 amended: a task whose requires holds an unresolvable binary always
\* yields Skipped, with no subprocess; its reason is the privilege reason when
\* the task needs sudo under a non-elevated descriptor, and otherwise
\* "Missing dependency: " followed by the first unresolvable entry of requires
\* (later unresolvable entries are not named); tags do not matter.
C8_SkippedFirstMissingNamed ==
    \A c \in Calls :
        LET t == tasks[c[1]]
            r == ran[c[1]][c[2]].res
        IN  Unresolved(t) # {} =>
              /\ r.Status = StatusSkipped
              /\ ~ran[c[1]][c[2]].spawned
              /\ procs[c[1]] = 0
              /\ IF t.Privilege = Sudo /\ ~plat.IsRoot
                 THEN r.SkipReason = ReasonSudo
                 ELSE \E j \in Unresolved(t) :
                        /\ \A j2 \in Unresolved(t) : j <= j2
                        /\ r.SkipReason = MissingDepPrefix \o t.Requires[j]
                        /\ Contains(r.SkipReason, t.Requires[j])

\* C8's case: the privilege check passes, two different entries of requires
\* are unresolvable, the task has a tag, and Run has returned
C8_Witness ==
    \E i \in 1..N :
        /\ ~(tasks[i].Privilege = Sudo /\ ~plat.IsRoot)
        /\ Cardinality({tasks[i].Requires[j] : j \in Unresolved(tasks[i])}) = 2
        /\ tasks[i].Tags # << >>
        /\ RanOnce(i)

\* C9: CanRun checks privilege, then dependencies in list order (the first
\* missing one is reported), then tags, and returns the reason of the first
\* failing check; a task with no privilege requirement, no dependencies and no
\* tags is eligible under every descriptor.
C9_CheckOrder ==
    \A c \in Calls :
        LET t == tasks[c[1]]
            r == ran[c[1]][c[2]].res
            privFail == t.Privilege = Sudo /\ ~plat.IsRoot
            depFail == \E j \in 1..Len(t.Requires) : t.Requires[j] \notin binaries
            tagFail == /\ Len(t.Tags) > 0
                       /\ \A j \in 1..Len(t.Tags) : ~TagMatches(plat, t.Tags[j])
        IN  /\ privFail => (r.Status = StatusSkipped /\ r.SkipReason = ReasonSudo)
            /\ (~privFail /\ depFail) =>
                 /\ r.Status = StatusSkipped
                 /\ \E j \in 1..Len(t.Requires) :
                      /\ t.Requires[j] \notin binaries
                      /\ \A j2 \in 1..(j - 1) : t.Requires[j2] \in binaries
                      /\ r.SkipReason = MissingDepPrefix \o t.Requires[j]
            /\ (~privFail /\ ~depFail /\ tagFail) =>
                 /\ r.Status = StatusSkipped
                 /\ r.SkipReason = EnvMismatchPrefix \o Join(t.Tags, OrSep)
            /\ (~privFail /\ ~depFail /\ ~tagFail) => r.Status # StatusSkipped
            /\ (t.Privilege = << >> /\ t.Requires = << >> /\ t.Tags = << >>) =>
                 (r.Status # StatusSkipped /\ ran[c[1]][c[2]].spawned)

\* C9's case: the privilege check passes while a dependency is missing and the
\* tags do not match, and Run has returned with the dependency's reason
C9_Witness ==
    \E i \in 1..N :
        /\ tasks[i].Privilege = Sudo /\ plat.IsRoot
        /\ Unresolved(tasks[i]) # {}
        /\ tasks[i].Tags # << >> /\ ~MatchesTags(plat, tasks[i].Tags)
        /\ RanOnce(i)
        /\ Contains(Produced(i).SkipReason, MissingDepPrefix)

\* C10: when the subprocess is still running at the deadline, Run returns
\* Failed with an error stating the timeout and its duration and keeps the
\* captured standard output, truncated, in Output; a task whose subprocess
\* exits cleanly is never reported as Failed.
C10_TimeoutAndCleanExit ==
    \A c \in Calls :
        LET t == tasks[c[1]]
            e == ran[c[1]][c[2]]
        IN  e.spawned =>
              /\ e.o.killed =>
                   /\ e.res.Status = StatusFailed
                   /\ e.res.Error = TimedOutPrefix \o TimeoutString
                   /\ e.res.Output = truncateOutput(e.o.stdout, t.MaxLines, t.MaxBytes)
              /\ ~e.o.err => e.res.Status # StatusFailed

\* C10, the part that holds: the timeout case, and a clean exit for which the
\* deadline has not passed when Run reads ctx.Err()
C10_TimeoutAndCleanExitInTime ==
    \A c \in Calls :
        LET t == tasks[c[1]]
            e == ran[c[1]][c[2]]
        IN  e.spawned =>
              /\ e.o.killed =>
                   /\ e.res.Status = StatusFailed
                   /\ e.res.Error = TimedOutPrefix \o TimeoutString
                   /\ e.res.Output = truncateOutput(e.o.stdout, t.MaxLines, t.MaxBytes)
              /\ (~e.o.err /\ ~e.o.deadline) => e.res.Status = StatusSuccess


---------------------------------------------------------------------------
(* Failure containment in the scheduler.                                   *)

\* Runner.Run returned a Failed result for tasks[i]
TaskFailed(i) == ran[i] # << >> /\ ran[i][1].res.Status = StatusFailed

\* the result tasks[i] gets from its own eligibility and its own subprocess
OwnResult(i) == Run(tasks[i], plat, binaries, ran[i][1].o)

\* a worker holding a Failed result that it has not handed on yet
HoldsFailure(w) ==
    wpc[w] \in {"store", "push", "notify"} /\ wres[w].Status = StatusFailed

\* C11: a failed task (non-zero exit, spawn error or timeout) is contained in
\* its own result: the worker that ran it goes on, and when the scheduler hands
\* its list on, every task has been run once and has the result of its own
\* eligibility and its own subprocess, at its place in the list.
C11_FailureContained ==
    /\ \A w \in Workers : HoldsFailure(w) => ENABLED WorkerStep(w)
    /\ (FinalListReady /\ \E j \in 1..N : TaskFailed(j)) =>
          /\ OneEntryPerTask(FinalList)
          /\ \A i \in 1..N : Produced(i) = OwnResult(i)
          /\ noUI => IndexAddressed(FinalList)

\* one worker; the first task failed, a later one was run and succeeded, and
\* the list has been handed on
C11_Witness ==
    /\ FinalListReady
    /\ workerCount = 1
    /\ \E j, i \in 1..N :
         /\ j < i
         /\ TaskFailed(j)
         /\ RanOnce(i) /\ Produced(i).Status = StatusSuccess
         /\ Produced(i) \in {FinalList[k] : k \in 1..Len(FinalList)}

---------------------------------------------------------------------------
(* internal/probe: the manifest loader.                                    *)
(*                                                                         *)
(* A source is one entry fs.WalkDir visits under "probes": its path, whether *)
(* it is a directory, whether the walk itself failed on it, and for a file *)
(* whether ReadFile and yaml.Unmarshal succeed and the Profile they give.  *)
(* Profile.Name and Profile.Description are read by no operation and are   *)
(* left out of the records.                                                *)

YamlSuffix == <<46, 121, 97, 109, 108>>   \* ".yaml"
CatIntro == <<105, 110, 116, 114, 111>>   \* "intro"

\* strings.HasSuffix(s, suffix)
HasSuffix(s, suffix) ==
    Len(s) >= Len(suffix) /\ SubSeq(s, Len(s) - Len(suffix) + 1, Len(s)) = suffix

\* strings.TrimSuffix(s, suffix)
TrimSuffix(s, suffix) ==
    IF HasSuffix(s, suffix) THEN SubSeq(s, 1, Len(s) - Len(suffix)) ELSE s

\* filepath.Base, on a path with no trailing separator
Base(path) ==
    LET cuts == {i \in 1..Len(path) : path[i] = 47}   \* "/"
        last == IF cuts = {} THEN 0 ELSE CHOOSE i \in cuts : \A j \in cuts : j <= i
    IN  SubSeq(path, last + 1, Len(path))

ZeroProfile == [Platform |-> << >>, Tasks |-> << >>]

\* the error of a failed read or parse, and of a failed directory read
PathError(path) ==
    <<111, 112, 101, 110, 32>>   \* "open "
    \o path \o <<58, 32>> \o ErrE   \* ": "

\* fmt.Errorf("loading %s: %w", path, err)
LoadingError(path, err) ==
    <<108, 111, 97, 100, 105, 110, 103, 32>>   \* "loading "
    \o path \o <<58, 32>> \o err   \* ": "

\* Loader.loadProfile: the profile with each task's empty category filled in
\* from the file name, or the error of the read or of the parse
loadProfile(src) ==
    IF ~src.read \/ ~src.parse
    THEN [profile |-> ZeroProfile, err |-> ErrE]
    ELSE LET category == TrimSuffix(Base(src.path), YamlSuffix)
             ts == src.profile.Tasks
         IN  [profile |->
                [src.profile EXCEPT !.Tasks =
                   [i \in 1..Len(ts) |->
                      IF ts[i].Category = << >>
                      THEN [ts[i] EXCEPT !.Category = category]
                      ELSE ts[i]]],
              err |-> << >>]

\* a slip in the platform match: the generic linux rule left out
matchesPlatformNoGeneric(profile, p) ==
    IF profile.Platform = << >> THEN TRUE
    ELSE LET profilePlatform == ToLower(profile.Platform)
             currentPlatform == ToLower(p.DistroID)
         IN  \/ profilePlatform = currentPlatform
             \/ Contains(currentPlatform, profilePlatform)

\* Loader.matchesPlatform
matchesPlatform(profile, p) ==
    IF profile.Platform = << >> THEN TRUE
    ELSE LET profilePlatform == ToLower(profile.Platform)
             currentPlatform == ToLower(p.DistroID)
         IN  \/ profilePlatform = currentPlatform
             \/ Contains(currentPlatform, profilePlatform)
             \/ profilePlatform = OSLinux /\ p.OS = OSLinux

\* a slip in FilterTasks: the loop over the profiles ends after the first one
FilterTasksFirstProfile(ps) ==
    IF ps = << >> THEN << >> ELSE ps[1].Tasks

\* Loader.FilterTasks: every task of every profile, in order
RECURSIVE FilterTasks(_)
FilterTasks(ps) ==
    IF ps = << >> THEN << >>
    ELSE ps[1].Tasks \o FilterTasks(Tail(ps))

\* the most files under probes/ that a walk visits
MaxSources == 2

PathA == <<112, 114, 111, 98, 101, 115, 47, 97, 46, 121, 97, 109, 108>>   \* "probes/a.yaml"
PathB == <<112, 114, 111, 98, 101, 115, 47, 98, 46, 121, 97, 109, 108>>   \* "probes/b.yaml"
PathC == <<112, 114, 111, 98, 101, 115, 47, 99, 46, 116, 120, 116>>   \* "probes/c.txt"
PlatArchLinuxMixed == <<65, 114, 99, 104, 95, 76, 105, 110, 117, 120>>   \* "Arch_Linux"
PlatLinuxMixed == <<76, 105, 110, 117, 120>>   \* "Linux"
PlatRch == <<114, 99, 104>>   \* "rch"
PlatDarwin == <<100, 97, 114, 119, 105, 110>>   \* "darwin"

\* the platforms a manifest declares
PlatformPool ==
    {<< >>, DistroArch, PlatArchLinuxMixed, PlatLinuxMixed, PlatRch, PlatDarwin}

\* the tasks a manifest declares: one without a category, one with its own
LoadTaskA == [TaskA EXCEPT !.Category = << >>]
LoadTaskB == [TaskB EXCEPT !.Category = CatIntro]
ProfilePool ==
    [Platform : PlatformPool,
     Tasks : {<< >>, <<LoadTaskA>>, <<LoadTaskA, LoadTaskB>>}]

\* the root directory, whose listing the walk may fail to read
RootSources ==
    {[path |-> <<112, 114, 111, 98, 101, 115>>,   \* "probes"
      isDir |-> TRUE, walkErr |-> e, read |-> FALSE,
      parse |-> FALSE, profile |-> ZeroProfile] : e \in BOOLEAN}

\* a file: unreadable, malformed, or holding a profile
FileSources(path) ==
    {[path |-> path, isDir |-> FALSE, walkErr |-> FALSE, read |-> rp[1],
      parse |-> rp[2], profile |-> ZeroProfile] :
        rp \in {<<FALSE, FALSE>>, <<TRUE, FALSE>>}}
    \cup {[path |-> path, isDir |-> FALSE, walkErr |-> FALSE, read |-> TRUE,
           parse |-> TRUE, profile |-> p] : p \in ProfilePool}

\* a is before b in the order fs.WalkDir visits the entries of a directory
RECURSIVE LexLess(_, _)
LexLess(a, b) ==
    IF b = << >> THEN FALSE
    ELSE IF a = << >> THEN TRUE
    ELSE IF a[1] # b[1] THEN a[1] < b[1]
    ELSE LexLess(Tail(a), Tail(b))

\* the walks: the root, then up to MaxSources files in lexical order
Walks ==
    {<<r>> \o fs :
        r \in RootSources,
        fs \in {s \in SeqsUpTo(FileSources(PathA) \cup FileSources(PathB)
                                 \cup FileSources(PathC), MaxSources) :
                  \A k \in 1..(Len(s) - 1) : LexLess(s[k].path, s[k + 1].path)}}

\* the descriptors Detect builds: a distribution identifier only where
\* /etc/os-release gives one
LoadPlats ==
    {[SchedPlat EXCEPT !.OS = od[1], !.DistroID = od[2],
                       !.Distro = IF od[2] = << >> THEN << >> ELSE DistroArch] :
        od \in {<<OSLinux, DistroIDArch>>, <<OSLinux, << >>>>, <<PlatDarwin, << >>>>}}

InitLoad ==
    /\ noUI = TRUE
    /\ workerCount = 1
    /\ tasks = << >>
    /\ plat \in LoadPlats
    /\ binaries = {BinFoo}
    /\ mainPc = "load"
    /\ spawnI = 0
    /\ feedI = 0
    /\ wg = 0
    /\ taskChan = << >>
    /\ taskChanClosed = FALSE
    /\ wpc = [w \in Workers |-> "idle"]
    /\ widx = [w \in Workers |-> 0]
    /\ wres = [w \in Workers |-> ZeroResult]
    /\ results = << >>
    /\ resultsChan = << >>
    /\ resultsChanClosed = FALSE
    /\ feederPc = "idle"
    /\ closerPc = "idle"
    /\ collectorPc = "idle"
    /\ events = << >>
    /\ ret = << >>
    /\ ran = << >>
    /\ procs = << >>
    /\ mode = "full"
    /\ effects = NoEffects
    /\ sources \in Walks
    /\ walkI = 0
    /\ profiles = << >>
    /\ loadErr = << >>
    /\ loadRet = << >>
    /\ fin = << >>
    /\ fout = << >>

schedVars ==
    <<noUI, workerCount, plat, binaries, spawnI, feedI, wg, taskChan,
      taskChanClosed, wpc, widx, wres, results, resultsChan, resultsChanClosed,
      feederPc, closerPc, collectorPc, events, ret, ran, procs>>

\* LoadAll: one call of the function fs.WalkDir is given
LoadVisit ==
    /\ mainPc = "load"
    /\ loadRet = << >>
    /\ loadErr = << >>
    /\ walkI < Len(sources)
    /\ walkI' = walkI + 1
    /\ LET src == sources[walkI + 1]
           lp  == loadProfile(src)
       IN  IF src.walkErr
           THEN loadErr' = PathError(src.path) /\ UNCHANGED profiles
           ELSE IF src.isDir \/ ~HasSuffix(src.path, YamlSuffix)
           THEN UNCHANGED <<loadErr, profiles>>
           ELSE IF lp.err # << >>
           THEN loadErr' = LoadingError(src.path, lp.err) /\ UNCHANGED profiles
           ELSE IF matchesPlatform(lp.profile, plat)
           THEN profiles' = Append(profiles, lp.profile) /\ UNCHANGED loadErr
           ELSE UNCHANGED <<loadErr, profiles>>
    /\ UNCHANGED <<schedVars, tasks, mainPc, mode, effects, sources, loadRet, fin, fout>>

\* LoadAll: fs.WalkDir has stopped; return profiles, err
LoadAll ==
    /\ mainPc = "load"
    /\ loadRet = << >>
    /\ loadErr # << >> \/ walkI = Len(sources)
    /\ loadRet' = <<[list |-> profiles, err |-> loadErr]>>
    /\ UNCHANGED <<schedVars, tasks, mainPc, mode, effects, sources, walkI,
                   profiles, loadErr, fin, fout>>

\* GetAllTasks, from the return of LoadAll
GetAllTasks ==
    /\ mainPc = "load"
    /\ Len(loadRet) = 1
    /\ loadRet' = Append(loadRet,
                         IF loadRet[1].err # << >>
                         THEN [list |-> << >>, err |-> loadRet[1].err]
                         ELSE [list |-> FilterTasks(loadRet[1].list), err |-> << >>])
    /\ UNCHANGED <<schedVars, tasks, mainPc, mode, effects, sources, walkI,
                   profiles, loadErr, fin, fout>>

\* main: tasks, err := loader.GetAllTasks(); an error ends the process
MainLoaded ==
    /\ mainPc = "load"
    /\ Len(loadRet) = 2
    /\ IF loadRet[2].err # << >>
       THEN /\ mainPc' = "exited"
            /\ effects' = [effects EXCEPT !.exit = "error"]
            /\ UNCHANGED tasks
       ELSE /\ mainPc' = "check"
            /\ tasks' = loadRet[2].list
            /\ UNCHANGED effects
    /\ UNCHANGED <<schedVars, mode, sources, walkI, profiles, loadErr, loadRet,
                   fin, fout>>

NextLoad == LoadVisit \/ LoadAll \/ GetAllTasks \/ MainLoaded

SpecLoad == InitLoad /\ [][NextLoad]_vars

---------------------------------------------------------------------------
(* Properties of the loader.                                               *)

\* LoadAll has returned without an error
LoadAllOk == Len(loadRet) >= 1 /\ loadRet[1].err = << >>

\* the walk's entries that are manifests: files named *.yaml
Manifests ==
    {k \in 1..Len(sources) : ~sources[k].isDir /\ HasSuffix(sources[k].path, YamlSuffix)}

\* the n-th smallest member of the set of indices K
NthIndex(K, n) == CHOOSE k \in K : Cardinality({j \in K : j <= k}) = n

\* the profiles LoadAll returned are those of the sources K, in walk order
LoadedAre(K) ==
    /\ Len(loadRet[1].list) = Cardinality(K)
    /\ \A n \in 1..Cardinality(K) :
         loadRet[1].list[n] = loadProfile(sources[NthIndex(K, n)]).profile

\* the number of tasks the sources K declare
RECURSIVE TaskCount(_)
TaskCount(K) ==
    IF K = {} THEN 0
    ELSE LET k == CHOOSE x \in K : TRUE
         IN  Len(sources[k].profile.Tasks) + TaskCount(K \ {k})

\* sub is a prefix of s
IsPrefix(sub, s) == Len(sub) <= Len(s) /\ SubSeq(s, 1, Len(sub)) = sub

\* sub occurs somewhere in s
OccursIn(sub, s) ==
    \E i \in 0..Len(s), j \in 0..Len(s) : i <= j /\ SubSeq(s, i + 1, j) = sub

\* applicability as C13 words it: no platform, the distribution identifier,
\* a prefix of it, or the name of the operating-system family
AppliesByPrefix(platform, p) ==
    \/ platform = << >>
    \/ ToLower(platform) = ToLower(p.DistroID)
    \/ IsPrefix(ToLower(platform), ToLower(p.DistroID))
    \/ ToLower(platform) = ToLower(p.OS)

\* applicability by partial match: no platform, a part of the distribution
\* identifier, or "linux" on a Linux descriptor
AppliesByPart(platform, p) ==
    \/ platform = << >>
    \/ OccursIn(ToLower(platform), ToLower(p.DistroID))
    \/ ToLower(platform) = OSLinux /\ p.OS = OSLinux

\* C13: a source applies exactly when it declares no platform, or its platform
\* equals the distribution identifier ignoring case, or is a case-insensitive
\* prefix of it, or is the generic name of the operating-system family; every
\* other source is excluded and none of its tasks are loaded.
C13_AppliesByPrefix ==
    LoadAllOk =>
        LoadedAre({k \in Manifests : AppliesByPrefix(sources[k].profile.Platform, plat)})

\* C13, amended: a source applies exactly when it declares no platform, or its
\* lower-cased platform occurs anywhere in the lower-cased distribution
\* identifier (the identifier itself and its prefixes included), or its platform
\* is "linux" ignoring case and the descriptor's operating system is "linux";
\* every other source is excluded and none of its tasks are loaded.
C13_AppliesByPart ==
    LET K == {k \in Manifests : AppliesByPart(sources[k].profile.Platform, plat)}
    IN  /\ LoadAllOk => LoadedAre(K)
        /\ (Len(loadRet) = 2 /\ loadRet[2].err = << >>) =>
              Len(loadRet[2].list) = TaskCount(K)

\* GetAllTasks returned the tasks of a source whose platform is inside the
\* distribution identifier without being a prefix of it, and none of the tasks
\* of a source for another operating system
C13_Witness ==
    /\ Len(loadRet) = 2 /\ loadRet[2].err = << >>
    /\ plat.DistroID = DistroIDArch
    /\ \E k, x \in Manifests :
         /\ sources[k].profile.Platform = PlatRch
         /\ sources[x].profile.Platform = PlatDarwin
         /\ sources[k].profile.Tasks # << >>
         /\ sources[x].profile.Tasks # << >>
         /\ Len(loadRet[2].list) = Len(sources[k].profile.Tasks)

\* the walk stopped at a manifest that failed to read or parse
ManifestFailed ==
    /\ walkI \in Manifests
    /\ ~sources[walkI].read \/ ~sources[walkI].parse

\* C14: if a manifest fails to read or parse, LoadAll and GetAllTasks return an
\* error that identifies the offending source, and no partial list of the
\* profiles or tasks parsed before the failure.
C14_AllOrNothing ==
    ManifestFailed =>
        \A n \in 1..Len(loadRet) :
            /\ Contains(loadRet[n].err, sources[walkI].path)
            /\ loadRet[n].list = << >>

\* C14, for GetAllTasks alone: the statement then holds.
C14_GetAllTasksAllOrNothing ==
    (ManifestFailed /\ Len(loadRet) = 2) =>
        /\ Contains(loadRet[2].err, sources[walkI].path)
        /\ loadRet[2].list = << >>

---------------------------------------------------------------------------
(* truncateOutput applied on its own.                                      *)

\* the longest text, and the largest limit, truncateOutput is applied to
MaxOutLen == 4
MaxLimit == 2

ByteA == <<97>>       \* "a"
Space == <<32>>       \* " "

\* short texts of letters, blanks and newlines
TruncTexts == SeqsUpTo({ByteA[1], Space[1], NL[1]}, MaxOutLen)

\* the scheduler is not running
IdleScheduler ==
    /\ noUI = TRUE
    /\ workerCount = 1
    /\ tasks = << >>
    /\ binaries = {BinFoo}
    /\ mainPc = "idle"
    /\ spawnI = 0
    /\ feedI = 0
    /\ wg = 0
    /\ taskChan = << >>
    /\ taskChanClosed = FALSE
    /\ wpc = [w \in Workers |-> "idle"]
    /\ widx = [w \in Workers |-> 0]
    /\ wres = [w \in Workers |-> ZeroResult]
    /\ results = << >>
    /\ resultsChan = << >>
    /\ resultsChanClosed = FALSE
    /\ feederPc = "idle"
    /\ closerPc = "idle"
    /\ collectorPc = "idle"
    /\ events = << >>
    /\ ret = << >>
    /\ ran = << >>
    /\ procs = << >>
    /\ effects = NoEffects
    /\ sources = << >>
    /\ walkI = 0
    /\ profiles = << >>
    /\ loadErr = << >>
    /\ loadRet = << >>

\* texts of eleven bytes and of up to eleven lines, for limits of two digits
LongTexts ==
    {[i \in 1..11 |-> ByteA[1]], [i \in 1..10 |-> NL[1]],
     [i \in 1..11 |-> IF i = 6 THEN NL[1] ELSE ByteA[1]]}
LongLimits == {9, 10}

InitTrunc ==
    /\ IdleScheduler
    /\ plat = SchedPlat
    /\ mode = "full"
    /\ fin \in [output : TruncTexts, maxLines : -1..MaxLimit, maxBytes : -1..MaxLimit]
              \cup [output : LongTexts, maxLines : LongLimits, maxBytes : LongLimits]
    /\ fout = << >>

\* truncateOutput(output, maxLines, maxBytes), with the value of output after
\* each of its stages
TruncateOutput ==
    /\ mainPc = "idle"
    /\ fout = << >>
    /\ "output" \in DOMAIN fin
    /\ LET ml == effectiveMaxLines(fin.maxLines)
           mb == effectiveMaxBytes(fin.maxBytes)
           o1 == truncateBytes(fin.output, mb)
           o2 == truncateLines(o1, ml)
       IN  fout' = [maxLines |-> ml, maxBytes |-> mb, bytes |-> o1, lines |-> o2,
                    ret |-> truncateOutput(fin.output, fin.maxLines, fin.maxBytes)]
    /\ UNCHANGED <<schedVars, tasks, mainPc, mode, effects, sources, walkI,
                   profiles, loadErr, loadRet, fin>>

\* truncateOutput applied, with the same limits, to the text it returned
TruncateAgain ==
    /\ mainPc = "idle"
    /\ fout # << >>
    /\ "output" \in DOMAIN fin
    /\ "again" \notin DOMAIN fout
    /\ fout' = [maxLines |-> fout.maxLines, maxBytes |-> fout.maxBytes,
                bytes |-> fout.bytes, lines |-> fout.lines, ret |-> fout.ret,
                again |-> truncateOutput(fout.ret, fin.maxLines, fin.maxBytes)]
    /\ UNCHANGED <<schedVars, tasks, mainPc, mode, effects, sources, walkI,
                   profiles, loadErr, loadRet, fin>>

NextTrunc == TruncateOutput \/ TruncateAgain

SpecTrunc == InitTrunc /\ [][NextTrunc]_vars

\* the number of lines of s
NumLines(s) == Cardinality({i \in 1..Len(s) : s[i] = NL[1]}) + 1

\* the first n lines of s
FirstLines(s, n) ==
    LET nl == {i \in 1..Len(s) : s[i] = NL[1]}
    IN  IF Cardinality(nl) < n THEN s ELSE SubSeq(s, 1, NthIndex(nl, n) - 1)

\* text carries the marker of the byte stage, of the line stage
ByteMarked(s) == Contains(s, ByteB \o CloseBracket)
LineMarked(s) == Contains(s, LinesSuffix)

\* s is kept with its surrounding white space removed
Trimmed(s, kept) ==
    \E i \in 0..Len(s), j \in 0..Len(s) :
        /\ i <= j
        /\ kept = SubSeq(s, i + 1, j)
        /\ \A k \in (1..i) \cup ((j + 1)..Len(s)) : IsSpace(s[k])
        /\ kept # << >> => ~IsSpace(kept[1]) /\ ~IsSpace(kept[Len(kept)])

IsMarker(m, ending) ==
    IsPrefix(TruncPrefix, m) /\ HasSuffix(m, ending) /\ NumLines(m) = 2

---------------------------------------------------------------------------
(* cmd main, from the loaded task list to the exit of the process.         *)
(*                                                                         *)
(* No report generator returns an error (its token count falls back to an  *)
(* estimate), so main's "Error generating report" branch is never taken.   *)

\* an eligible task of category "intro"
TaskIntro == [TaskA EXCEPT !.Name = NameB, !.Category = CatIntro]

\* the tasks GetAllTasks hands to main: eligible, needing sudo, of category "intro"
MainPool == {TaskA, TaskB, TaskIntro}

\* the report formats: ReportFull, ReportMinified, ReportIntro
Modes == {"full", "minified", "intro"}

\* main when GetAllTasks has returned its list
InitMain ==
    /\ noUI \in BOOLEAN
    /\ workerCount \in -1..MaxLoad
    /\ tasks \in SeqsUpTo(MainPool, MaxLoad)
    /\ Len(tasks) + workerCount < MaxLoad
    /\ plat = SchedPlat
    /\ binaries = {BinFoo}
    /\ mainPc = "check"
    /\ spawnI = 0
    /\ feedI = 0
    /\ wg = 0
    /\ taskChan = << >>
    /\ taskChanClosed = FALSE
    /\ wpc = [w \in Workers |-> "idle"]
    /\ widx = [w \in Workers |-> 0]
    /\ wres = [w \in Workers |-> ZeroResult]
    /\ results = << >>
    /\ resultsChan = << >>
    /\ resultsChanClosed = FALSE
    /\ feederPc = "idle"
    /\ closerPc = "idle"
    /\ collectorPc = "idle"
    /\ events = << >>
    /\ ret = << >>
    /\ ran = << >>
    /\ procs = << >>
    /\ mode \in Modes
    /\ effects = NoEffects
    /\ ExtIdle

\* main: the tasks that go on to the scheduler
IntroFilter(ts, m) ==
    IF m = "intro" THEN SelectSeq(ts, LAMBDA t : t.Category = CatIntro) ELSE ts

\* a slip in main: the empty task list is handed to the scheduler
MainCheckTasksNoExit ==
    /\ mainPc = "check"
    /\ LET ts == IntroFilter(tasks, mode)
       IN  /\ tasks' = ts
           /\ mainPc' = "spawn"
           /\ results' = IF noUI THEN [i \in 1..Len(ts) |-> ZeroResult] ELSE << >>
           /\ ran' = [i \in 1..Len(ts) |-> << >>]
           /\ procs' = [i \in 1..Len(ts) |-> 0]
           /\ UNCHANGED effects
    /\ UNCHANGED <<extVars,
                   noUI, workerCount, plat, binaries, spawnI, feedI, wg, taskChan,
                   taskChanClosed, wpc, widx, wres, resultsChan, resultsChanClosed,
                   feederPc, closerPc, collectorPc, events, ret>>

\* main: the intro filter, the exit on an empty task list, and the call of
\* the scheduler, which makes its results slice
MainCheckTasks ==
    /\ mainPc = "check"
    /\ LET ts == IntroFilter(tasks, mode)
       IN  /\ tasks' = ts
           /\ IF Len(ts) = 0
              THEN /\ mainPc' = "exited"
                   /\ effects' = [effects EXCEPT !.exit = "error"]
                   /\ UNCHANGED <<results, ran, procs>>
              ELSE /\ mainPc' = "spawn"
                   /\ results' = IF noUI THEN [i \in 1..Len(ts) |-> ZeroResult]
                                         ELSE << >>
                   /\ ran' = [i \in 1..Len(ts) |-> << >>]
                   /\ procs' = [i \in 1..Len(ts) |-> 0]
                   /\ UNCHANGED effects
    /\ UNCHANGED <<extVars,
                   noUI, workerCount, plat, binaries, spawnI, feedI, wg, taskChan,
                   taskChanClosed, wpc, widx, wres, resultsChan, resultsChanClosed,
                   feederPc, closerPc, collectorPc, events, ret>>

\* main after runWithoutUI: the report is generated; os.WriteFile succeeds,
\* and the success line is printed, or fails, and the process exits with 1
MainWriteReport ==
    /\ noUI /\ mainPc = "returned"
    /\ \E ok \in BOOLEAN :
         effects' = [file |-> WriteFile(ok),
                     exit |-> IF ok THEN "ok" ELSE "error",
                     msg |-> ok]
    /\ mainPc' = "exited"
    /\ UNCHANGED <<extVars,
                   noUI, workerCount, tasks, plat, binaries, spawnI, feedI, wg,
                   taskChan, taskChanClosed, wpc, widx, wres, results, resultsChan,
                   resultsChanClosed, feederPc, closerPc, collectorPc, events, ret,
                   ran, procs>>

NextMain == MainCheckTasks \/ MainWriteReport \/ Next

SpecMain == InitMain /\ [][NextMain]_vars

\* the process has ended
Ended == effects.exit # "running"

\* main has looked at the task list and no task is left
NothingLoaded == mainPc # "check" /\ N = 0

\* no task of the list is eligible: Runner.Run gives Skipped for each
NoneEligible ==
    mainPc # "check" /\ \A i \in 1..N : ~CanRun(tasks[i], plat, binaries).ok

C16_WriteFailureFatal ==
    effects.file = "failed" =>
        /\ ~effects.msg
        /\ \A k \in 1..Len(events) : events[k].type # "ReportDoneMsg"
        /\ Ended => effects.exit = "error"

\* C16, in non-interactive mode: the statement then holds.
C16_NoUIWriteFailureFatal ==
    (noUI /\ effects.file = "failed") => ~effects.msg /\ effects.exit = "error"

---------------------------------------------------------------------------
(* internal/report: the three Markdown generators.                         *)
(*                                                                         *)
(* A report is made from a platform descriptor, a list of results and the  *)
(* time of its making.  The time is kept as its RFC 3339 text in UTC; the  *)
(* tokenizer is an outside library, whose counts can be any number.        *)

TaskHeading == <<10, 35, 35, 35, 32>>   \* "\n### "
FenceLine == <<96, 96, 96, 10>>   \* "```\n"
ErrorsHeading == <<10, 35, 35, 32, 69, 114, 114, 111, 114, 115, 32, 38, 32, 83, 107, 105, 112, 112, 101, 100, 10, 10>>   \* "\n## Errors & Skipped\n\n"
ItemOpen == <<45, 32, 42, 42>>   \* "- **"
FailedOpen == <<42, 42, 58, 32, 70, 97, 105, 108, 101, 100, 32, 40>>   \* "**: Failed ("
SkippedOpen == <<42, 42, 58, 32, 83, 107, 105, 112, 112, 101, 100, 32, 40>>   \* "**: Skipped ("
ItemClose == <<41, 10>>   \* ")\n"
UnknownError == <<85, 110, 107, 110, 111, 119, 110, 32, 101, 114, 114, 111, 114>>   \* "Unknown error"
UnknownReason == <<85, 110, 107, 110, 111, 119, 110, 32, 114, 101, 97, 115, 111, 110>>   \* "Unknown reason"
\* GenerateIntro: "# System Context\n\n" and "Use this information to understand
\* my environment when helping me.\n\n"
IntroPreamble ==
    <<35, 32, 83, 121, 115, 116, 101, 109, 32, 67, 111, 110, 116, 101, 120, 116, 10, 10,
      85, 115, 101, 32, 116, 104, 105, 115, 32, 105, 110, 102, 111, 114, 109, 97, 116, 105,
      111, 110, 32, 116, 111, 32, 117, 110, 100, 101, 114, 115, 116, 97, 110, 100, 32, 109,
      121, 32, 101, 110, 118, 105, 114, 111, 110, 109, 101, 110, 116, 32, 119, 104, 101, 110,
      32, 104, 101, 108, 112, 105, 110, 103, 32, 109, 101, 46, 10, 10>>
IntroHeading == <<35, 35, 32>>   \* "## "
CatNetworkLower == <<110, 101, 116, 119, 111, 114, 107>>   \* "network"
CatNetworkTitle == <<78, 101, 116, 119, 111, 114, 107>>   \* "Network"
CatNetworkUpper == <<78, 69, 84, 87, 79, 82, 75>>   \* "NETWORK"
CatIntroTitle == <<73, 110, 116, 114, 111>>   \* "Intro"
GeneratedAt == <<50, 48, 50, 54, 45, 48, 49, 45, 48, 50, 84, 48, 51, 58, 48, 52, 58, 48, 53, 90>>   \* "2026-01-02T03:04:05Z"

\* strings.Title, on ASCII: the first letter of every word in upper case, every
\* other byte as it is
IsSeparator(b) == ~(b \in 48..57 \/ b \in 65..90 \/ b \in 97..122 \/ b = 95)
Title(s) ==
    [i \in 1..Len(s) |->
        IF (i = 1 \/ IsSeparator(s[i - 1])) /\ s[i] \in 97..122
        THEN s[i] - 32 ELSE s[i]]

\* strconv.Itoa, for n >= 0 (the %d verb)
RECURSIVE Itoa(_)
Itoa(n) == IF n < 10 THEN <<48 + n>> ELSE Itoa(n \div 10) \o <<48 + (n % 10)>>

\* the concatenation of a sequence of strings (writes to a strings.Builder)
RECURSIVE Flatten(_)
Flatten(ss) == IF ss = << >> THEN << >> ELSE ss[1] \o Flatten(Tail(ss))

\* sort.Strings of a set of strings
RECURSIVE SortStrings(_)
SortStrings(S) ==
    IF S = {} THEN << >>
    ELSE LET least == CHOOSE x \in S : \A y \in S \ {x} : LexLess(x, y)
         IN  <<least>> \o SortStrings(S \ {least})

\* groupByCategory: the key a result is filed under
categoryKey(result) ==
    Title(IF result.Category = << >>
          THEN <<71, 101, 110, 101, 114, 97, 108>>   \* "General"
          ELSE result.Category)

\* MarkdownReport.groupByCategory
groupByCategory(rs) ==
    LET order == SortStrings({categoryKey(rs[i]) : i \in 1..Len(rs)})
    IN  [k \in 1..Len(order) |->
            [name |-> order[k],
             results |-> SelectSeq(rs, LAMBDA r : categoryKey(r) = order[k])]]

\* MarkdownReport.writeTaskResult: what it writes to the builder
writeTaskResult(result) ==
    IF result.Status = StatusFailed \/ result.Status = StatusSkipped THEN << >>
    ELSE TaskHeading \o result.Name \o NL
         \o <<96, 96, 96, 10, 36, 32>> \o result.Command \o NL   \* "```\n$ "
         \o (IF result.Output # << >>
             THEN result.Output \o (IF HasSuffix(result.Output, NL) THEN << >> ELSE NL)
             ELSE <<91, 110, 111, 32, 111, 117, 116, 112, 117, 116, 93, 10>>)   \* "[no output]\n"
         \o FenceLine

\* writeErrorsSection: one line of the list
failedLine(result) ==
    ItemOpen \o result.Name \o FailedOpen
    \o (IF result.Error = << >> THEN UnknownError ELSE result.Error) \o ItemClose
skippedLine(result) ==
    ItemOpen \o result.Name \o SkippedOpen
    \o (IF result.SkipReason = << >> THEN UnknownReason ELSE result.SkipReason)
    \o ItemClose

\* MarkdownReport.writeErrorsSection: what it writes to the builder
writeErrorsSection(rs) ==
    LET errors  == SelectSeq(rs, LAMBDA r : r.Status = StatusFailed)
        skipped == SelectSeq(rs, LAMBDA r : r.Status = StatusSkipped)
    IN  IF Len(errors) = 0 /\ Len(skipped) = 0 THEN << >>
        ELSE ErrorsHeading
             \o Flatten([i \in 1..Len(errors) |-> failedLine(errors[i])])
             \o Flatten([i \in 1..Len(skipped) |-> skippedLine(skipped[i])])

\* MarkdownReport.generateContent
generateContent(rs) ==
    LET categories == groupByCategory(rs)
    IN  Flatten([k \in 1..Len(categories) |->
                   <<10, 35, 35, 32>> \o categories[k].name \o NL   \* "\n## "
                   \o Flatten([i \in 1..Len(categories[k].results) |->
                                 writeTaskResult(categories[k].results[i])])])
        \o writeErrorsSection(rs)

\* MarkdownReport.generateWithTokenCount
generateWithTokenCount(rs, p, generated, tokenCount) ==
    <<35, 32, 83, 121, 115, 80, 114, 111, 98, 101, 32, 68, 105, 97, 103, 110, 111, 115, 116, 105, 99, 32, 82, 101, 112, 111, 114, 116, 10, 10>>   \* "# SysProbe Diagnostic Report\n\n"
    \o <<71, 101, 110, 101, 114, 97, 116, 101, 100, 58, 32>>   \* "Generated: "
    \o generated \o NL
    \o <<80, 108, 97, 116, 102, 111, 114, 109, 58, 32>>   \* "Platform: "
    \o p.DistroID
    \o (IF p.WM # << >> THEN <<32, 40>> \o p.WM \o <<41>> ELSE << >>)   \* " (", ")"
    \o NL
    \o <<84, 111, 107, 101, 110, 32, 67, 111, 117, 110, 116, 58, 32>>   \* "Token Count: "
    \o Itoa(tokenCount) \o NL
    \o generateContent(rs)

\* what a generator returns
Generated(text, tokens) == [text |-> text, tokens |-> tokens, err |-> FALSE]

\* a slip in Generate: the estimate is made from the report with its header
GenerateEstimateWithHeader(rs, p, generated, tc, counted, recounted) ==
    IF ~tc
    THEN LET tokenCount ==
                 Len(generateWithTokenCount(rs, p, generated, 0)) \div 4
         IN  Generated(generateWithTokenCount(rs, p, generated, tokenCount),
                       tokenCount)
    ELSE Generated(generateWithTokenCount(rs, p, generated, counted), recounted)

\* MarkdownReport.Generate; tc is whether NewTokenCounter succeeds, counted
\* and recounted what tc.Count gives for the content and for the report
Generate(rs, p, generated, tc, counted, recounted) ==
    LET content == generateContent(rs)
    IN  IF ~tc
        THEN LET tokenCount == Len(content) \div 4
             IN  Generated(generateWithTokenCount(rs, p, generated, tokenCount),
                           tokenCount)
        ELSE Generated(generateWithTokenCount(rs, p, generated, counted), recounted)

\* Generated.Format("2006-01-02T15:04"), from the RFC 3339 text of a UTC time
FormatMinute(generated) == SubSeq(generated, 1, 16)

\* MarkdownReport.GenerateMinified
GenerateMinified(rs, p, generated, tc, counted) ==
    LET fence == <<10, 96, 96, 96, 10>>   \* "\n```\n"
        section(r) ==
            IF r.Status = StatusSuccess /\ r.Output # << >>
            THEN <<10, 35, 35, 32>> \o r.Name \o fence   \* "\n## "
                 \o TrimSpace(r.Output) \o fence
            ELSE << >>
        content ==
            <<35, 32, 83, 121, 115, 80, 114, 111, 98, 101, 32, 82, 101, 112, 111, 114, 116, 10>>   \* "# SysProbe Report\n"
            \o <<84, 105, 109, 101, 58>> \o FormatMinute(generated)   \* "Time:"
            \o <<32, 80, 108, 97, 116, 102, 111, 114, 109, 58>>   \* " Platform:"
            \o p.DistroID \o NL
            \o Flatten([i \in 1..Len(rs) |-> section(rs[i])])
    IN  Generated(content, IF ~tc THEN Len(content) \div 4 ELSE counted)

\* a slip in GenerateIntro: the category is not looked at
GenerateIntroAnyCategory(rs, p, generated, tc, counted) ==
    LET section(r) ==
            IF r.Status = StatusSuccess /\ r.Output # << >>
            THEN IntroHeading \o r.Name \o NL \o FenceLine
                 \o TrimSpace(r.Output) \o NL \o FenceLine \o NL
            ELSE << >>
        content ==
            IntroPreamble \o Flatten([i \in 1..Len(rs) |-> section(rs[i])])
    IN  Generated(content, IF ~tc THEN Len(content) \div 4 ELSE counted)

\* MarkdownReport.GenerateIntro
GenerateIntro(rs, p, generated, tc, counted) ==
    LET section(r) ==
            IF r.Category # CatIntro THEN << >>
            ELSE IF r.Status = StatusSuccess /\ r.Output # << >>
            THEN IntroHeading \o r.Name \o NL \o FenceLine
                 \o TrimSpace(r.Output) \o NL \o FenceLine \o NL
            ELSE << >>
        content ==
            IntroPreamble \o Flatten([i \in 1..Len(rs) |-> section(rs[i])])
    IN  Generated(content, IF ~tc THEN Len(content) \div 4 ELSE counted)

\* the longest result list a report is made from
MaxResults == 2

\* a result as Runner.Run returns it
Result(name, category, status, output, error, reason) ==
    [Name |-> name, Command |-> CmdX, Category |-> category, Status |-> status,
     Output |-> output, Error |-> error, SkipReason |-> reason]

\* the results a report is made from: of each final status, with and without
\* text, in categories that differ in case, and the zero value runWithoutUI
\* leaves in a slot no worker has written
ReportResults ==
    {Result(NameA, CatNetworkLower, StatusSuccess, OutA, << >>, << >>),
     Result(NameB, CatNetworkTitle, StatusSuccess, << >>, << >>, << >>),
     Result(NameA, CatNetworkUpper, StatusSuccess, OutABC, << >>, << >>),
     Result(NameB, CatIntro, StatusSuccess, OutA, << >>, << >>),
     Result(NameA, CatIntroTitle, StatusSuccess, OutA, << >>, << >>),
     Result(NameA, << >>, StatusSuccess, OutA, << >>, << >>),
     Result(NameA, CatNetworkLower, StatusFailed, << >>, ErrE, << >>),
     Result(NameB, CatIntro, StatusFailed, OutA, << >>, << >>),
     Result(NameA, << >>, StatusSkipped, << >>, << >>, ReasonSudo),
     Result(NameB, CatNetworkLower, StatusSkipped, << >>, << >>, << >>),
     ZeroResult}

\* what tc.Count can give
TokenCounts == {0, 7}

\* the descriptors a report is made for: with and without a window manager
ReportPlats == {[SchedPlat EXCEPT !.WM = wm] : wm \in {<< >>, TagSway}}

\* report.NewMarkdownReport(plat, results) has been called
InitReport ==
    /\ IdleScheduler
    /\ plat \in ReportPlats
    /\ mode \in Modes
    /\ fin \in [results : SeqsUpTo(ReportResults, MaxResults),
                generated : {GeneratedAt},
                tokenizer : BOOLEAN]
    /\ fout = << >>

\* the generator main and runWithUI call for the report mode, and for the
\* full report the groups it is built from
CallGenerator(report(_, _), groups) ==
    /\ mainPc = "idle"
    /\ fout = << >>
    /\ "results" \in DOMAIN fin
    /\ \E counted, recounted \in TokenCounts :
         LET g == report(counted, recounted)
         IN  fout' = [text |-> g.text, tokens |-> g.tokens, err |-> g.err,
                      groups |-> groups]
    /\ UNCHANGED <<schedVars, tasks, mainPc, mode, effects, sources, walkI,
                   profiles, loadErr, loadRet, fin>>

CallGenerate ==
    /\ mode = "full"
    /\ CallGenerator(LAMBDA counted, recounted :
                        Generate(fin.results, plat, fin.generated, fin.tokenizer,
                                 counted, recounted),
                     groupByCategory(fin.results))

CallGenerateMinified ==
    /\ mode = "minified"
    /\ CallGenerator(LAMBDA counted, recounted :
                        GenerateMinified(fin.results, plat, fin.generated,
                                         fin.tokenizer, counted),
                     << >>)

CallGenerateIntro ==
    /\ mode = "intro"
    /\ CallGenerator(LAMBDA counted, recounted :
                        GenerateIntro(fin.results, plat, fin.generated,
                                      fin.tokenizer, counted),
                     << >>)

\* a later reading of the clock, in another zone
GeneratedLater == <<50, 48, 50, 54, 45, 48, 49, 45, 48, 50, 84, 48, 52, 58, 48, 52, 58, 48, 54, 43, 48, 49, 58, 48, 48>>   \* "2026-01-02T04:04:06+01:00"

\* what tc.Count can give for a text: the count it gave for the first Full
\* report, if it counted that text then (its content, then its text), and any
\* count otherwise
Count(text) ==
    LET firstCounted ==
            CHOOSE c \in TokenCounts :
                fout.text = generateWithTokenCount(fin.results, plat,
                                                   fin.generated, c)
        known ==
            IF fin.tokenizer
            THEN {<<generateContent(fin.results), firstCounted>>,
                  <<fout.text, fout.tokens>>}
            ELSE {}
    IN  IF \E k \in known : k[1] = text
        THEN {k[2] : k \in {x \in known : x[1] = text}}
        ELSE TokenCounts

\* report.NewMarkdownReport(plat, results).Generate() once more, for the
\* results and the descriptor of the first report
CallGenerateAgain ==
    /\ mainPc = "idle"
    /\ mode = "full"
    /\ fout # << >>
    /\ "again" \notin DOMAIN fout
    /\ \E generated \in {fin.generated, GeneratedLater}, tokenizer \in BOOLEAN :
         \E counted \in Count(generateContent(fin.results)) :
           \E recounted \in
                 Count(generateWithTokenCount(fin.results, plat, generated, counted)) :
             LET g == Generate(fin.results, plat, generated, tokenizer,
                               counted, recounted)
             IN  fout' = [text |-> fout.text, tokens |-> fout.tokens,
                          err |-> fout.err, groups |-> fout.groups,
                          again |-> [generated |-> generated,
                                     tokenizer |-> tokenizer,
                                     text |-> g.text, tokens |-> g.tokens]]
    /\ UNCHANGED <<schedVars, tasks, mainPc, mode, effects, sources, walkI,
                   profiles, loadErr, loadRet, fin>>

NextReport ==
    CallGenerate \/ CallGenerateMinified \/ CallGenerateIntro \/ CallGenerateAgain

SpecReport == InitReport /\ [][NextReport]_vars

---------------------------------------------------------------------------
(* Properties of the reports.                                              *)

\* a generator has returned, in the given mode
Rendered(m) == mode = m /\ fout # << >>

\* the number of places where pat occurs in s
CountOf(s, pat) ==
    Cardinality({i \in 0..(Len(s) - Len(pat)) : SubSeq(s, i + 1, i + Len(pat)) = pat})

\* the indices of the results with the given status
WithStatus(rs, status) == {i \in 1..Len(rs) : rs[i].Status = status}

\* the text from the first place where pat occurs in s to the end (empty if none)
FromFirst(s, pat) ==
    LET at == {i \in 0..(Len(s) - Len(pat)) : SubSeq(s, i + 1, i + Len(pat)) = pat}
    IN  IF at = {} THEN << >>
        ELSE SubSeq(s, (CHOOSE i \in at : \A j \in at : i <= j) + 1, Len(s))

\* the "Errors & Skipped" section as C17 words it: the Failed results, then
\* the Skipped results, each in result order; nothing when there are none
ErrorsSectionOf(rs) ==
    LET F == WithStatus(rs, StatusFailed)
        S == WithStatus(rs, StatusSkipped)
    IN  IF F = {} /\ S = {} THEN << >>
        ELSE ErrorsHeading
             \o Flatten([n \in 1..Cardinality(F) |->
                  LET r == rs[NthIndex(F, n)]
                  IN  ItemOpen \o r.Name \o FailedOpen
                      \o (IF r.Error = << >> THEN UnknownError ELSE r.Error)
                      \o ItemClose])
             \o Flatten([n \in 1..Cardinality(S) |->
                  LET r == rs[NthIndex(S, n)]
                  IN  ItemOpen \o r.Name \o SkippedOpen
                      \o (IF r.SkipReason = << >> THEN UnknownReason ELSE r.SkipReason)
                      \o ItemClose])

\* the results are placed by status: one body section for each Success result
\* and for no other, and the trailing section as C17 words it
PlacedByStatus ==
    /\ CountOf(fout.text, TaskHeading)
         = Cardinality(WithStatus(fin.results, StatusSuccess))
    /\ FromFirst(fout.text, ErrorsHeading) = ErrorsSectionOf(fin.results)

\* C17: in the Full report only Success results are rendered as body sections,
\* and the trailing "Errors & Skipped" section lists every Failed result, then
\* every Skipped result, each in result order, with "Unknown error" and
\* "Unknown reason" for empty texts; it is omitted when there are none.
C17_PlacedByStatus == Rendered("full") => PlacedByStatus

\* C17, for lists in which every result is Success, Failed or Skipped: the
\* statement then holds.
C17_FinalPlacedByStatus ==
    (Rendered("full")
       /\ \A i \in 1..Len(fin.results) :
            fin.results[i].Status \in {StatusSuccess, StatusFailed, StatusSkipped})
    => PlacedByStatus

\* C18: groupByCategory never returns two groups whose names are equal
\* ignoring case: categories that differ only in letter case share one group.
C18_CaseInsensitiveGroups ==
    Rendered("full") =>
        \A g, h \in 1..Len(fout.groups) :
            ToLower(fout.groups[g].name) = ToLower(fout.groups[h].name) => g = h

\* C18, for categories that differ only in the case of the first letter of a
\* word: those do share one group.
C18_FirstLetterGroups ==
    Rendered("full") =>
        \A i, j \in 1..Len(fin.results) :
            Title(fin.results[i].Category) = Title(fin.results[j].Category) =>
                \E g \in 1..Len(fout.groups) :
                    \E a, b \in 1..Len(fout.groups[g].results) :
                        /\ fout.groups[g].results[a] = fin.results[i]
                        /\ fout.groups[g].results[b] = fin.results[j]

\* the results a section of the Intro report is made from
IntroShown ==
    {i \in 1..Len(fin.results) :
        /\ fin.results[i].Category = CatIntro
        /\ fin.results[i].Status = StatusSuccess
        /\ fin.results[i].Output # << >>}

\* s without its surrounding white space
TrimmedOf(s) ==
    CHOOSE kept \in {SubSeq(s, i + 1, j) : i, j \in 0..Len(s)} : Trimmed(s, kept)

C20_FallbackCount ==
    (fout # << >> /\ "tokenizer" \in DOMAIN fin /\ ~fin.tokenizer) =>
        ~fout.err /\ fout.tokens = Len(fout.text) \div 4

\* C20, for GenerateMinified and GenerateIntro: the statement then holds.
C20_FallbackCountShortForms ==
    ((Rendered("minified") \/ Rendered("intro")) /\ ~fin.tokenizer) =>
        ~fout.err /\ fout.tokens = Len(fout.text) \div 4

\* the Full report has been made twice
RenderedAgain == Rendered("full") /\ "again" \in DOMAIN fout

---------------------------------------------------------------------------
(* Properties of the lifecycle events of runWithUI.                        *)

\* the places of the first k events that hold a message of the given type
EventsOf(type, k) == {j \in 1..k : events[j].type = type}

\* the "started" and the "completed" events for a task name among the first k
StartedFor(name, k) == {j \in EventsOf("TaskStartMsg", k) : events[j].Name = name}
CompletedFor(name, k) ==
    {j \in EventsOf("TaskDoneMsg", k) : events[j].Result.Name = name}

\* the order of the lifecycle events handed to p.Send so far
EventOrder ==
    /\ \A k \in EventsOf("TaskDoneMsg", Len(events)) :
         LET name == events[k].Result.Name
         IN  Cardinality(CompletedFor(name, k)) <= Cardinality(StartedFor(name, k))
    /\ Cardinality(EventsOf("AllDoneMsg", Len(events))) <= 1
    /\ \A k \in EventsOf("AllDoneMsg", Len(events)) :
         /\ Cardinality(EventsOf("TaskStartMsg", k)) = N
         /\ Cardinality(EventsOf("TaskDoneMsg", k)) = N
         /\ EventsOf("TaskStartMsg", Len(events)) \subseteq 1..k
         /\ EventsOf("TaskDoneMsg", Len(events)) \subseteq 1..k
         /\ OneEntryPerTask(events[k].Results)
    /\ Cardinality(EventsOf("ReportDoneMsg", Len(events))) <= 1
    /\ \A k \in EventsOf("ReportDoneMsg", Len(events)) :
         EventsOf("AllDoneMsg", k) # {}

\* C22: in runWithUI each task's "started" event precedes its "completed"
\* event; the single "all completed" event comes after the "completed" event of
\* every task and carries one result per task; the "report written" event
\* comes after "all completed" and at most once.
C22_EventOrder == ~noUI => EventOrder

\* C22, with at least one worker: the statement then holds.
C22_WithWorkers == (~noUI /\ workerCount >= 1) => EventOrder

\* a run of two tasks on two workers that has sent all its events
C22_WithWorkersWitness ==
    /\ ~noUI /\ workerCount = 2 /\ N = 2
    /\ Len(events) = 6
    /\ events[1].type = "TaskStartMsg" /\ events[2].type = "TaskStartMsg"
    /\ events[6].type = "ReportDoneMsg"

---------------------------------------------------------------------------
(* Properties of the work queue of runWithoutUI.                           *)

\* the workers that have claimed index i and not yet written its slot
Holding(i) == {w \in Workers : widx[w] = i /\ wpc[w] \in {"run", "exec", "store"}}

\* slot i of the results array has been written (Runner.Run never returns the
\* zero value)
Written(i) == results[i] # ZeroResult

\* index i is in one place at most: on the queue, with one worker, or written
\* to its slot; and it is in one place once the feed loop has sent it
InOnePlace(i) ==
    Occurrences(taskChan, i) + Cardinality(Holding(i))
        + (IF Written(i) THEN 1 ELSE 0)
      = (IF i <= feedI THEN 1 ELSE 0)

\* every index is queued once, claimed by one worker and written once
EachIndexOnce ==
    /\ \A i \in 1..N : InOnePlace(i)
    /\ Returned => \A i \in 1..N : RanOnce(i) /\ Written(i)

\* C23: in runWithoutUI every index is put on the work queue exactly once and
\* claimed by exactly one worker; no slot of the results array is written by
\* two workers and no slot is written twice.
C23_EachIndexOnce == noUI => EachIndexOnce

\* C23, with at least one worker: the statement then holds.
C23_WithWorkers == (noUI /\ workerCount >= 1) => EachIndexOnce

\* two workers hold the two indices of a run at the same time
C23_WithWorkersWitness ==
    /\ noUI /\ workerCount = 2 /\ N = 2
    /\ Holding(1) # {} /\ Holding(2) # {}

\* C23's conclusion, for every worker count: no index is in two places, so no
\* slot is written by two workers or twice.
C23_NoSlotWrittenTwice == noUI => \A i \in 1..N : InOnePlace(i)

---------------------------------------------------------------------------
(* runWithoutUI alone, with the scheduling the Go runtime gives it: a       *)
(* goroutine that can take a step takes one, and a Runner.Run that has been *)
(* called returns.                                                          *)

\* main calls runWithoutUI, on tasks that run and tasks that are skipped
InitNoUI == Init /\ noUI /\ \A i \in 1..N : tasks[i] \in {TaskA, TaskB}

\* a step of the goroutine that runs runWithoutUI
NoUIMainStep == SpawnWorker \/ SpawnDone \/ NoUIFeed \/ NoUIClose \/ NoUIReturn

\* a step of worker goroutine w of runWithoutUI
NoUIWorkerStep(w) ==
    \/ WorkerRecv(w)
    \/ WorkerExit(w)
    \/ RunBegin(w)
    \/ RunEnd(w, SchedOutcomes)
    \/ NoUIStore(w)

NextNoUI == NoUIMainStep \/ \E w \in Workers : NoUIWorkerStep(w)

SpecNoUI ==
    /\ InitNoUI
    /\ [][NextNoUI]_vars
    /\ WF_vars(NoUIMainStep)
    /\ \A w \in Workers : WF_vars(NoUIWorkerStep(w))

\* the feed loop has an index to send and the queue has room for it
FeedNeverBlocks == (mainPc = "feed" /\ feedI < N) => Len(taskChan) < N

\* C24: for every N >= 0 and every worker count w >= 1, if every Runner.Run
\* call returns, feeding the queue never blocks, every worker leaves its loop
\* after the queue is closed, and runWithoutUI returns.
C24_Terminates ==
    /\ [](workerCount >= 1 => FeedNeverBlocks)
    /\ \A w \in Workers :
         (workerCount >= 1 /\ wpc[w] = "recv") ~> (wpc[w] = "done" /\ taskChanClosed)
    /\ (workerCount >= 1) ~> Returned

\* runWithoutUI has returned from a run of two tasks on two workers, each of
\* which ran one of them
C24_Witness ==
    /\ Returned /\ workerCount = 2 /\ N = 2
    /\ widx[1] # widx[2] /\ widx[1] # 0 /\ widx[2] # 0
    /\ \A w \in 1..2 : wpc[w] = "done"

---------------------------------------------------------------------------
(* The display model of runWithUI (ui.Model): what the event loop makes of *)
(* the messages handed to p.Send, taken in the order they were sent.       *)

\* runWithUI: taskNames[i] = tasks[i].Name
TaskNames == [i \in 1..N |-> tasks[i].Name]

\* ui.NewModel(taskNames): a Pending row per name; taskIndex maps a name to
\* the last place it is listed at
NewModel(taskNames) ==
    [tasks |-> [i \in 1..Len(taskNames) |->
                   [ZeroResult EXCEPT !.Name = taskNames[i],
                                      !.Status = StatusPending]],
     taskIndex |-> [name \in {taskNames[i] : i \in 1..Len(taskNames)} |->
                      CHOOSE i \in 1..Len(taskNames) :
                          /\ taskNames[i] = name
                          /\ \A j \in 1..Len(taskNames) :
                               taskNames[j] = name => j <= i],
     completed |-> 0,
     total |-> Len(taskNames),
     done |-> FALSE,
     waitingInput |-> FALSE]

\* Model.Update, case AllDoneMsg: the loop over msg.Results
RECURSIVE SetRows(_, _, _)
SetRows(rows, taskIndex, rs) ==
    IF rs = << >> THEN rows
    ELSE SetRows(IF Head(rs).Name \in DOMAIN taskIndex
                 THEN [rows EXCEPT ![taskIndex[Head(rs).Name]] = Head(rs)]
                 ELSE rows,
                 taskIndex, Tail(rs))

\* Model.Update(msg), for the four messages runWithUI sends
Update(m, msg) ==
    CASE msg.type = "TaskStartMsg" ->
           IF msg.Name \in DOMAIN m.taskIndex
           THEN [m EXCEPT !.tasks[m.taskIndex[msg.Name]].Status = StatusRunning]
           ELSE m
      [] msg.type = "TaskDoneMsg" ->
           IF msg.Result.Name \in DOMAIN m.taskIndex
           THEN [m EXCEPT !.tasks[m.taskIndex[msg.Result.Name]] = msg.Result,
                          !.completed = @ + 1]
           ELSE m
      [] msg.type = "AllDoneMsg" ->
           [m EXCEPT !.done = TRUE,
                     !.tasks = SetRows(@, m.taskIndex, msg.Results)]
      [] msg.type = "ReportDoneMsg" ->
           [m EXCEPT !.waitingInput = TRUE]

\* the model when the event loop has taken the first k messages
RECURSIVE UIModel(_)
UIModel(k) == IF k = 0 THEN NewModel(TaskNames) ELSE Update(UIModel(k - 1), events[k])

---------------------------------------------------------------------------
(* Properties of the display model.                                        *)

\* no two tasks of the run share a name
DistinctNames == \A i, j \in 1..N : tasks[i].Name = tasks[j].Name => i = j

\* the event loop has taken AllDoneMsg when it has taken the first k messages
AllDoneTaken(k) == EventsOf("AllDoneMsg", k) # {}

\* row i of the display holds the result Runner.Run produced for tasks[i]
RowHoldsOwn(m, i) == RanOnce(i) /\ m.tasks[i] = Produced(i)

\* after AllDoneMsg every row holds the result of the task listed there
RowsCorrelate ==
    \A k \in 1..Len(events) :
        AllDoneTaken(k) => \A i \in 1..N : RowHoldsOwn(UIModel(k), i)

\* C25: in runWithUI, when all task names are distinct, every display row
\* holds the result of the task listed at that position once the
\* "all completed" event has been processed (and when two tasks share a name,
\* a state with a row still Pending or holding another task's result is
\* reachable: C25_SharedNameMisattributed).
C25_NameKeyedCorrelation == (~noUI /\ DistinctNames) => RowsCorrelate

\* C25, with at least one worker: the statement then holds.
C25_WithWorkers == (~noUI /\ DistinctNames /\ workerCount >= 1) => RowsCorrelate

\* C25's second case, reachable with two workers: two tasks share a name, all
\* events have been processed, the first row never left Pending and the
\* second holds the first task's result
C25_SharedNameMisattributed ==
    /\ ~noUI /\ workerCount = 2 /\ N = 2 /\ ~DistinctNames
    /\ AllDoneTaken(Len(events))
    /\ events[Len(events)].type = "ReportDoneMsg"
    /\ \A k \in 0..Len(events) : UIModel(k).tasks[1].Status = StatusPending
    /\ RanOnce(1) /\ RanOnce(2) /\ Produced(1) # Produced(2)
    /\ UIModel(Len(events)).tasks[2] = Produced(1)

\* a run of two tasks with different names on two workers whose events have
\* all been processed
C25_WithWorkersWitness ==
    /\ ~noUI /\ workerCount = 2 /\ N = 2 /\ DistinctNames
    /\ AllDoneTaken(Len(events))
    /\ UIModel(Len(events)).completed = 2

---------------------------------------------------------------------------
(* Properties of the two channels of runWithUI.                            *)

\* the results pushed onto resultsChan so far, in the order of the pushes:
\* those the collector has taken, then those still buffered
Pushed == results \o resultsChan

\* C26: in runWithUI both channels have capacity N and at most one item per
\* task is ever pushed onto each, so a send never waits, whatever the
\* collector does: the feed loop always finds room on taskChan, a worker always
\* finds room on resultsChan, and neither buffer holds more than N items.
C26_PushNeverWaits ==
    ~noUI =>
        /\ Len(taskChan) <= N /\ Len(resultsChan) <= N
        /\ (feederPc = "feed" /\ feedI < N) => Len(taskChan) < N
        /\ \A w \in Workers : wpc[w] = "push" => Len(resultsChan) < N
        /\ feedI <= N
        /\ \A i \in 1..N : Occurrences(taskChan, i) <= (IF i <= feedI THEN 1 ELSE 0)
        /\ Len(Pushed) <= N
        /\ \A k \in 1..Len(Pushed) :
             Occurrences(Pushed, Pushed[k])
               <= Cardinality({i \in 1..N : RanOnce(i) /\ Produced(i) = Pushed[k]})

\* the collector has taken nothing, one result is buffered and a second
\* worker is about to push the last one
C26_Witness ==
    /\ ~noUI /\ N = 2 /\ workerCount = 2
    /\ results = << >> /\ Len(resultsChan) = 1
    /\ \E w \in Workers : wpc[w] = "push"

---------------------------------------------------------------------------
(* Properties of the truncation markers.                                   *)

\* a byte bound in human-readable units: 10 is "10B", 65536 is "64KB"
HumanBytes(b) ==
    IF b < 1024 THEN Itoa(b) \o ByteB
    ELSE LET r == formatBytesLoop(b \div 1024, 1024, 0)
         IN  Itoa(b \div r.div) \o <<UnitLetters[r.exp + 1]>> \o ByteB

\* the markers state the bounds: where a stage has cut the text, the text it
\* returns ends with the marker that names the stage's bound
MarkersStateBound ==
    /\ Len(fin.output) > fout.maxBytes
       => HasSuffix(fout.bytes,
                    TruncPrefix \o HumanBytes(fout.maxBytes) \o CloseBracket)
    /\ NumLines(fout.bytes) > fout.maxLines
       => HasSuffix(fout.lines,
                    TruncPrefix \o Itoa(fout.maxLines) \o LinesSuffix)

\* C27: the marker truncateOutput appends states the bound that was exceeded:
\* the line marker contains the decimal value of the effective maxLines, the
\* byte marker the effective maxBytes in human-readable units.
C27_MarkerStatesBound == fout # << >> => MarkersStateBound

\* C27, for limits from 1 to 9: the statement then holds.
C27_OneDigitLimits ==
    (fout # << >> /\ fout.maxLines <= 9 /\ fout.maxBytes <= 9) => MarkersStateBound

\* the markers of the default limits: "pKB" for 65536 bytes and U+0224 for
\* 500 lines
C27_DefaultMarkers ==
    /\ formatBytes(DefaultMaxBytes) = <<112, 75, 66>>
    /\ HumanBytes(DefaultMaxBytes) = <<54, 52, 75, 66>>
    /\ RuneString(DefaultMaxLines + 48) = <<200, 164>>

\* both stages have cut a text under limits of one digit
C27_OneDigitWitness ==
    /\ fout # << >>
    /\ fout.maxBytes = 2 /\ fout.maxLines = 1
    /\ Len(fin.output) > 2
    /\ NumLines(fout.bytes) > 1

---------------------------------------------------------------------------
(* Properties of the task list the loader returns.                         *)

\* GetAllTasks has returned without an error
GetAllTasksOk == Len(loadRet) = 2 /\ loadRet[2].err = << >>

\* the name of a manifest without directory and extension: "a" for
\* "probes/a.yaml"
SourceName(path) ==
    CHOOSE c \in {SubSeq(path, i, Len(path) - Len(YamlSuffix)) : i \in 1..Len(path)} :
        /\ \A k \in 1..Len(c) : c[k] # 47
        /\ (Len(c) = Len(path) - Len(YamlSuffix)
              \/ path[Len(path) - Len(YamlSuffix) - Len(c)] = 47)

\* the tasks source k contributes: none, or those it declares, in the order
\* declared, a task without category filed under the source's name
Contributed(k) ==
    IF k \in Manifests /\ AppliesByPart(sources[k].profile.Platform, plat)
    THEN [i \in 1..Len(sources[k].profile.Tasks) |->
            LET t == sources[k].profile.Tasks[i]
            IN  [Name |-> t.Name, Command |-> t.Command, Privilege |-> t.Privilege,
                 MaxLines |-> t.MaxLines, MaxBytes |-> t.MaxBytes,
                 Requires |-> t.Requires, Tags |-> t.Tags,
                 Category |-> IF t.Category = << >>
                              THEN SourceName(sources[k].path) ELSE t.Category]]
    ELSE << >>

\* the contributions of the sources from k on, in the order of the walk
RECURSIVE CanonicalFrom(_)
CanonicalFrom(k) ==
    IF k > Len(sources) THEN << >> ELSE Contributed(k) \o CanonicalFrom(k + 1)

---------------------------------------------------------------------------
(* Properties of truncateOutput applied twice.                             *)

\* truncateOutput has been applied to its own result
TruncatedAgain == fout # << >> /\ "again" \in DOMAIN fout

\* C29: truncation is idempotent: for every text and every pair of limits,
\* truncateOutput applied to its own result with the same limits returns that
\* result, also when the text exceeds both limits and when the kept prefix
\* begins or ends with white space.
C29_Idempotent == TruncatedAgain => fout.again = fout.ret

\* C29, for text that does not begin with white space and for text that no
\* stage cuts: truncateOutput applied to its own result then returns that
\* result, also when the text exceeds both limits and when the kept prefix
\* ends with white space.
C29_IdempotentWithoutLeadingSpace ==
    (TruncatedAgain
       /\ \/ fin.output = << >>
          \/ ~IsSpace(fin.output[1])
          \/ (Len(fin.output) <= fout.maxBytes
                /\ NumLines(fin.output) <= fout.maxLines))
    => fout.again = fout.ret

\* a text that exceeds both limits and whose kept prefix ends with a blank
C29_Witness ==
    /\ TruncatedAgain
    /\ fout.maxBytes >= 1
    /\ Len(fin.output) > fout.maxBytes
    /\ ~IsSpace(fin.output[1])
    /\ NumLines(fout.bytes) > fout.maxLines
    /\ IsSpace(fin.output[fout.maxBytes])
    /\ fout.ret # fin.output
    /\ fout.again = fout.ret


---------------------------------------------------------------------------
(* The completed counter and the done flag of the display model.           *)

\* completed never exceeds total, whatever prefix of the messages was taken
CompletedWithinTotal ==
    \A k \in 0..Len(events) : UIModel(k).completed <= UIModel(k).total

\* completed goes up by one when a TaskDoneMsg is taken, and only then
CompletedStepsByOne ==
    \A k \in 1..Len(events) :
        UIModel(k).completed =
            UIModel(k - 1).completed
              + (IF events[k].type = "TaskDoneMsg" THEN 1 ELSE 0)

\* completed equals total when the AllDoneMsg has been taken
CompleteAtAllDone ==
    \A k \in 1..Len(events) :
        events[k].type = "AllDoneMsg" => UIModel(k).completed = UIModel(k).total

\* done stays set from the AllDoneMsg on
DoneStaysSet ==
    \A k \in 1..Len(events) :
        events[k].type = "AllDoneMsg" =>
            \A later \in k..Len(events) : UIModel(later).done

\* C30: in the display model of runWithUI, completed never exceeds total, it
\* increases by exactly one per TaskDoneMsg, it equals total when AllDoneMsg
\* is processed, and done, once set by AllDoneMsg, is never cleared.
C30_CompletedCounter ==
    ~noUI => /\ CompletedWithinTotal
             /\ CompletedStepsByOne
             /\ CompleteAtAllDone
             /\ DoneStaysSet

\* C30, with at least one worker: the statement then holds.
C30_WithWorkers == (~noUI /\ workerCount >= 1) => C30_CompletedCounter

\* C30, the parts that hold whatever the worker count is
C30_CounterAndDone ==
    ~noUI => CompletedWithinTotal /\ CompletedStepsByOne /\ DoneStaysSet

\* two tasks on two workers, every message taken: completed went 0, .., 2 and
\* done is set
C30_WithWorkersWitness ==
    /\ ~noUI /\ workerCount = 2 /\ N = 2
    /\ events # << >> /\ events[Len(events)].type = "ReportDoneMsg"
    /\ UIModel(Len(events)).completed = 2
    /\ UIModel(Len(events)).done
    /\ \E k \in 1..Len(events) : UIModel(k).completed = 1 /\ ~UIModel(k).done

=============================================================================
